---- MODULE Spec2Model ----
(***************************************************************************)
(* Verification model of the AWS tools plugin:                             *)
(*   - provider/utils.py: credential resolution and the credential-signed  *)
(*     client cache (reset_clients_on_credential_change) together with the *)
(*     lazy construction blocks of the handlers that use it;               *)
(*   - tools/transcribe_asr.py and tools/nova_reel.py: job submission and  *)
(*     status polling;                                                     *)
(*   - tools/transcribe_asr.py: the retrying download and upload;          *)
(*   - the _invoke generators of TranscribeTool, S3Operator and            *)
(*     BedrockRetrieveTool and the messages they yield.                    *)
(*   - tools/extract_frame.py: overlapping frame extractions and their     *)
(*     shared temp directory;                                              *)
(*   - tools/dynamodb_manager.py and tools/s3_create_bucket.py: repeated   *)
(*     create requests.                                                    *)
(* Python's None is the string "None"; the empty string is "".             *)
(***************************************************************************)
EXTENDS Integers, Sequences, FiniteSets, TLC

VARIABLES
    \* ---- client cache (one entry per owner instance) ----
    kind,        \* handler class of each owner
    runtime,     \* tool.runtime.credentials of each owner
    sig,         \* owner._client_credentials_signature (<<>> when the attribute is absent)
    handles,     \* owner.<client attribute>, per slot
    cpc,         \* position of the owner's current invocation
    cur,         \* credentials resolved by the current invocation
    prev,        \* credentials resolved by the previous invocation
    prevEnsure,  \* how the client-ensure step of the previous invocation ended
    before,      \* the owner's handles and signature when the current invocation started
    built,       \* slots whose client was constructed in the current invocation, in order
    builtPrev,   \* the same for the previous invocation
    used,        \* handles read by the remote call of the current invocation
    \* ---- one run of a long-running operation ----
    jkind,       \* "transcribe" (_transcribe_audio) or "nova" (video generation)
    async_mode,  \* params["async_mode"] of the video generation
    script,      \* what the remote service answers to the successive status requests
    jpc,         \* position of the run
    submits,     \* number of job submissions issued
    requests,    \* the status requests issued so far, with the answer to each
    jresult,     \* what the run returned
    \* ---- one call of a retrying fetch ----
    fkind,       \* "download" (_download_and_read_transcript) or "upload" (upload_file_from_url_to_s3)
    finput,      \* which of url / bucket_name the caller passed to the upload
    jsonErrorIsRequestException,  \* whether the installed requests raises its own JSONDecodeError
    max_retries, \* the max_retries argument
    retry_count, \* the local retry_count
    attempts,    \* what happened on each attempt so far
    fpc,         \* position of the call
    fresult,     \* what the call returned
    \* ---- one invocation of a handler's _invoke generator ----
    hkind,       \* the handler class: one of HandlerKinds
    hp,          \* tool_parameters
    noneTextRaises,  \* whether create_text_message(None) raises in the installed SDK
    cached_kb,   \* BedrockRetrieveTool.knowledge_base_id left by earlier invocations
    hpc,         \* position of the invocation
    hv,          \* the locals carried from one stage to the next
    out,         \* the messages yielded so far
    calls,       \* the calls made to remote services so far
    invocations, \* how many invocations the instance has started
    \* ---- the transcript reconstruction of _download_and_read_transcript ----
    transcript_data,   \* the parsed JSON document
    time_to_speaker,   \* start_time -> speaker_label
    current_speaker,
    transcript_parts,
    item_idx,          \* position of `for item in items`
    rpc,               \* position of the reconstruction
    rresult,           \* the (text, error) pair returned
    \* ---- one call of resolve_aws_credentials ----
    tool,              \* the tool argument: whether it has a runtime, and runtime.credentials
    call_parameters,   \* the tool_parameters argument
    resolved,          \* the dict returned
    vpc,               \* position of the call
    \* ---- invocations of FrameExtractor._invoke (they share one temp directory) ----
    xparams,     \* tool_parameters of each invocation
    xpc,         \* position of each invocation
    xout,        \* the messages each invocation yielded
    xfs,         \* the temp directory on disk: whether it exists and whose data its files hold
    xcleanups,   \* how many times each invocation ran _clean_temp_dir
    xleft,       \* whether the removal raised inside _clean_temp_dir of each invocation
    \* ---- successive invocations of a create-if-absent handler against one account ----
    mkind,       \* "dynamodb" (DynamoDBManager, operation create_table) or "s3" (S3CreateBucket)
    mname,       \* the table or bucket name of the current invocation
    mremote,     \* the names that exist in the account
    mpc,         \* position of the current invocation
    mout,        \* what each invocation so far reported
    minvocations \* how many invocations were started

cacheVars == <<kind, runtime, sig, handles, cpc, cur, prev, prevEnsure, before, built, builtPrev, used>>

jobVars == <<jkind, async_mode, script, jpc, submits, requests, jresult>>

fetchVars == <<fkind, finput, jsonErrorIsRequestException, max_retries, retry_count, attempts, fpc, fresult>>

vars == <<kind, runtime, sig, handles, cpc, cur, prev, prevEnsure, before, built, builtPrev, used,
          jkind, async_mode, script, jpc, submits, requests, jresult,
          fkind, finput, jsonErrorIsRequestException, max_retries, retry_count, attempts, fpc, fresult,
          hkind, hp, noneTextRaises, cached_kb, hpc, hv, out, calls, invocations,
          transcript_data, time_to_speaker, current_speaker, transcript_parts, item_idx, rpc, rresult,
          tool, call_parameters, resolved, vpc,
          xparams, xpc, xout, xfs, xcleanups, xleft,
          mkind, mname, mremote, mpc, mout, minvocations>>

invokeVars == <<hkind, hp, noneTextRaises, cached_kb, hpc, hv, out, calls, invocations>>

reconVars == <<transcript_data, time_to_speaker, current_speaker, transcript_parts, item_idx, rpc, rresult>>

resolveVars == <<tool, call_parameters, resolved, vpc>>

frameVars == <<xparams, xpc, xout, xfs, xcleanups, xleft>>

createVars == <<mkind, mname, mremote, mpc, mout, minvocations>>

None == "None"

\* Python truthiness of an optional string
Truthy(x) == x # None /\ x # ""

\* Python's `a or b`
PyOr(a, b) == IF Truthy(a) THEN a ELSE b

(***************************************************************************)
(* Bounded input domains                                                   *)
(***************************************************************************)
Owners == {"o1"}

AccessKeys == {None, "AK1"}
SecretKeys == {None, "", "SK1"}
Regions == {None, "eu-west-1", "ap-northeast-1"}

\* tool_parameters restricted to the credential keys (dict.get gives None for a missing key)
ParamSets == [aws_access_key_id : AccessKeys, aws_secret_access_key : SecretKeys, aws_region : Regions]

\* provider-level credentials of a runtime
RuntimeSets == {
    [aws_access_key_id |-> None, aws_secret_access_key |-> None, aws_region |-> None],
    [aws_access_key_id |-> "AK0", aws_secret_access_key |-> "SK0", aws_region |-> "eu-west-1"] }

NoCreds == [aws_access_key_id |-> None, aws_secret_access_key |-> None, aws_region |-> None]

(***************************************************************************)
(* provider/utils.py                                                       *)
(***************************************************************************)
resolve_aws_credentials_defaults_first(rt, tool_parameters) ==
    [aws_access_key_id |-> PyOr(rt.aws_access_key_id, tool_parameters.aws_access_key_id),
     aws_secret_access_key |-> PyOr(rt.aws_secret_access_key, tool_parameters.aws_secret_access_key),
     aws_region |-> PyOr(PyOr(rt.aws_region, tool_parameters.aws_region), "us-east-1")]

resolve_aws_credentials(rt, tool_parameters) ==
    [aws_access_key_id |-> PyOr(tool_parameters.aws_access_key_id, rt.aws_access_key_id),
     aws_secret_access_key |-> PyOr(tool_parameters.aws_secret_access_key, rt.aws_secret_access_key),
     aws_region |-> PyOr(PyOr(tool_parameters.aws_region, rt.aws_region), "us-east-1")]

\* a key that is left out of the kwargs is None here
build_boto3_client_kwargs(credentials) ==
    LET both == Truthy(credentials.aws_access_key_id) /\ Truthy(credentials.aws_secret_access_key)
    IN [region_name |-> IF Truthy(credentials.aws_region) THEN credentials.aws_region ELSE None,
        aws_access_key_id |-> IF both THEN credentials.aws_access_key_id ELSE None,
        aws_secret_access_key |-> IF both THEN credentials.aws_secret_access_key ELSE None]

build_credential_signature(credentials) ==
    <<credentials.aws_access_key_id, credentials.aws_secret_access_key, credentials.aws_region>>

\* the handler merges the call-level region once more after resolving
HandlerCredentials(rt, tool_parameters) ==
    LET c == resolve_aws_credentials(rt, tool_parameters)
    IN IF Truthy(tool_parameters.aws_region)
       THEN [c EXCEPT !.aws_region = tool_parameters.aws_region]
       ELSE c

(***************************************************************************)
(* Handler classes and their client slots                                  *)
(***************************************************************************)
Kinds == {"lambda", "transcribe", "dynamodb", "tts"}

\* the client attributes a handler passes to reset_clients_on_credential_change, in construction order
Slots(k) ==
    CASE k = "lambda" -> <<"lambda_client">>
      [] k = "transcribe" -> <<"transcribe_client", "s3_client">>
      [] k = "dynamodb" -> <<"dynamodb_resource", "dynamodb_client">>
      [] k = "tts" -> <<"sagemaker_client", "s3_client", "comprehend_client">>

AllSlots == {"lambda_client", "transcribe_client", "s3_client", "dynamodb_resource",
             "dynamodb_client", "sagemaker_client", "comprehend_client"}

SlotSet(k) == {Slots(k)[i] : i \in 1..Len(Slots(k))}

ServiceOf(slot) ==
    CASE slot = "lambda_client" -> "lambda"
      [] slot = "transcribe_client" -> "transcribe"
      [] slot = "s3_client" -> "s3"
      [] slot = "dynamodb_resource" -> "dynamodb"
      [] slot = "dynamodb_client" -> "dynamodb"
      [] slot = "sagemaker_client" -> "sagemaker-runtime"
      [] slot = "comprehend_client" -> "comprehend"

NoHandle == [service |-> None, kwargs |-> build_boto3_client_kwargs(NoCreds), creds |-> NoCreds, maker |-> None]

\* boto3.client(service, **build_boto3_client_kwargs(credentials))
NewClient(o, slot, credentials) ==
    [service |-> ServiceOf(slot), kwargs |-> build_boto3_client_kwargs(credentials), creds |-> credentials,
     maker |-> o]

EmptyHandles == [s \in AllSlots |-> NoHandle]

\* a plausible slip: the loop over the attributes stops after the first one
ClearSlots_first_only(h, k) == [s \in AllSlots |-> IF s = Slots(k)[1] THEN NoHandle ELSE h[s]]

\* every client attribute is declared on the class, so hasattr(owner, attr) holds
ClearSlots(h, k) == [s \in AllSlots |-> IF s \in SlotSet(k) THEN NoHandle ELSE h[s]]

\* a plausible slip: the clients are reset on every call
reset_always(o, credentials, k) ==
    /\ handles' = [handles EXCEPT ![o] = ClearSlots(@, k)]
    /\ sig' = [sig EXCEPT ![o] = build_credential_signature(credentials)]

\* a plausible slip: the signature is stored but the cached clients are kept
reset_keeps_clients(o, credentials, k) ==
    /\ sig' = [sig EXCEPT ![o] = build_credential_signature(credentials)]
    /\ UNCHANGED handles

\* a plausible slip: the attributes are set on the class, so every instance of it is reset
reset_on_class(o, credentials, k) ==
    LET signature == build_credential_signature(credentials)
    IN IF sig[o] # signature
       THEN /\ handles' = [p \in DOMAIN handles |->
                              IF kind[p] = kind[o] THEN ClearSlots(handles[p], k) ELSE handles[p]]
            /\ sig' = [p \in DOMAIN sig |-> IF kind[p] = kind[o] THEN signature ELSE sig[p]]
       ELSE UNCHANGED <<sig, handles>>

reset_clients_on_credential_change(o, credentials, k) ==
    LET signature == build_credential_signature(credentials)
        current_signature == sig[o]
    IN IF current_signature # signature
       THEN /\ handles' = [handles EXCEPT ![o] = ClearSlots(@, k)]
            /\ sig' = [sig EXCEPT ![o] = signature]
       ELSE UNCHANGED <<sig, handles>>

(***************************************************************************)
(* The lazy construction block that follows the reset in each handler      *)
(***************************************************************************)
\* whether the block constructs the client of a slot, given the handles after the reset
NeedsBuild(k, h, slot) ==
    CASE k = "lambda" -> h[slot] = NoHandle
      [] k = "transcribe" ->
            /\ (h["transcribe_client"] = NoHandle \/ h["s3_client"] = NoHandle)
            /\ h[slot] = NoHandle
      [] k = "dynamodb" -> h["dynamodb_resource"] = NoHandle \/ h["dynamodb_client"] = NoHandle
      [] k = "tts" -> h["sagemaker_client"] = NoHandle

ToBuild(k, h) == SelectSeq(Slots(k), LAMBDA s : NeedsBuild(k, h, s))

SeqToSet(q) == {q[i] : i \in 1..Len(q)}

\* resolve the credentials and reset the clients: the head of every _invoke
BeginInvoke(o, tool_parameters) ==
    LET credentials == HandlerCredentials(runtime[o], tool_parameters)
    IN /\ cpc[o] \in {"idle", "done", "failed"}
       /\ reset_clients_on_credential_change(o, credentials, kind[o])
       /\ cur' = [cur EXCEPT ![o] = credentials]
       /\ prev' = [prev EXCEPT ![o] = cur[o]]
       /\ prevEnsure' = [prevEnsure EXCEPT ![o] =
                IF cpc[o] = "done" THEN "ok" ELSE IF cpc[o] = "failed" THEN "error" ELSE "none"]
       /\ before' = [before EXCEPT ![o] = [handles |-> handles[o], sig |-> sig[o]]]
       /\ builtPrev' = [builtPrev EXCEPT ![o] = built[o]]
       /\ built' = [built EXCEPT ![o] = <<>>]
       /\ used' = [used EXCEPT ![o] = {}]
       /\ cpc' = [cpc EXCEPT ![o] = "reset"]
       /\ UNCHANGED <<kind, runtime>>
       /\ UNCHANGED <<jobVars, fetchVars, invokeVars, reconVars, resolveVars, frameVars, createVars>>

\* the lazy construction; the failAt-th boto3 call raises (0: none does)
LazyConstruct(o, failAt) ==
    LET tb == ToBuild(kind[o], handles[o])
        made == IF failAt = 0 THEN tb ELSE SubSeq(tb, 1, failAt - 1)
    IN /\ cpc[o] = "reset"
       /\ failAt \in 0..Len(tb)
       /\ handles' = [handles EXCEPT ![o] =
                [s \in AllSlots |-> IF s \in SeqToSet(made) THEN NewClient(o, s, cur[o]) ELSE @[s]]]
       /\ built' = [built EXCEPT ![o] = made]
       /\ cpc' = [cpc EXCEPT ![o] = IF failAt = 0 THEN "ready" ELSE "failed"]
       /\ UNCHANGED <<kind, runtime, sig, cur, prev, prevEnsure, before, builtPrev, used>>
       /\ UNCHANGED <<jobVars, fetchVars, invokeVars, reconVars, resolveVars, frameVars, createVars>>

\* the remote call of the invocation reads the cached clients
UseClients(o) ==
    /\ cpc[o] = "ready"
    /\ used' = [used EXCEPT ![o] = {handles[o][s] : s \in SlotSet(kind[o])}]
    /\ cpc' = [cpc EXCEPT ![o] = "done"]
    /\ UNCHANGED <<kind, runtime, sig, handles, cur, prev, prevEnsure, before, built, builtPrev>>
    /\ UNCHANGED <<jobVars, fetchVars, invokeVars, reconVars, resolveVars, frameVars, createVars>>

MaxFailAt == 3

CacheIdle ==
    /\ kind = [o \in Owners |-> "lambda"]
    /\ runtime = [o \in Owners |-> NoCreds]
    /\ sig = [o \in Owners |-> <<>>]
    /\ handles = [o \in Owners |-> EmptyHandles]
    /\ cpc = [o \in Owners |-> "idle"]
    /\ cur = [o \in Owners |-> NoCreds]
    /\ prev = [o \in Owners |-> NoCreds]
    /\ prevEnsure = [o \in Owners |-> "none"]
    /\ before = [o \in Owners |-> [handles |-> EmptyHandles, sig |-> <<>>]]
    /\ built = [o \in Owners |-> <<>>]
    /\ builtPrev = [o \in Owners |-> <<>>]
    /\ used = [o \in Owners |-> {}]

NoResult == [outcome |-> "none", loc |-> 0, desc |-> "none", from |-> 0]

JobIdle ==
    /\ jkind = "transcribe"
    /\ async_mode = FALSE
    /\ script = <<>>
    /\ jpc = "idle"
    /\ submits = 0
    /\ requests = <<>>
    /\ jresult = NoResult

NoFetchResult == [outcome |-> "none", named |-> 0]

FetchIdle ==
    /\ fkind = "download"
    /\ finput = "ok"
    /\ jsonErrorIsRequestException = FALSE
    /\ max_retries = 0
    /\ retry_count = 0
    /\ attempts = <<>>
    /\ fpc = "idle"
    /\ fresult = NoFetchResult

NoLocals == [s3_path |-> None, uri |-> None, text |-> None, client_ok |-> TRUE]

InvokeIdle ==
    /\ hkind = "transcribe"
    /\ hp = <<>>
    /\ noneTextRaises = FALSE
    /\ cached_kb = None
    /\ hpc = "idle"
    /\ hv = NoLocals
    /\ out = <<>>
    /\ calls = <<>>
    /\ invocations = 0

\* a parsed document with neither speaker labels nor transcripts
NoDocument == [has_segments |-> FALSE, segments |-> <<>>, items |-> <<>>,
               has_transcripts |-> FALSE, transcripts |-> <<>>]

NoText == [text |-> <<>>, error |-> None, ok |-> FALSE]

ReconIdle ==
    /\ transcript_data = NoDocument
    /\ time_to_speaker = <<>>
    /\ current_speaker = None
    /\ transcript_parts = <<>>
    /\ item_idx = 0
    /\ rpc = "idle"
    /\ rresult = NoText

NoTool == [has_runtime |-> FALSE, credentials |-> NoCreds]

ResolveIdle ==
    /\ tool = NoTool
    /\ call_parameters = NoCreds
    /\ resolved = NoCreds
    /\ vpc = "idle"

\* the invocations of the frame extraction that may overlap
Frames == {"i1", "i2"}

NoFrameParams == [input_type |-> "GIF", frame_count |-> "5"]

NoDir == [exists |-> FALSE, gif |-> "none", frames |-> "none"]

FrameIdle ==
    /\ xparams = [i \in Frames |-> NoFrameParams]
    /\ xpc = [i \in Frames |-> "idle"]
    /\ xout = [i \in Frames |-> <<>>]
    /\ xfs = NoDir
    /\ xcleanups = [i \in Frames |-> 0]
    /\ xleft = [i \in Frames |-> FALSE]

CreateIdle ==
    /\ mkind = "dynamodb"
    /\ mname = None
    /\ mremote = {}
    /\ mpc = "idle"
    /\ mout = <<>>
    /\ minvocations = 0

InitCache ==
    /\ JobIdle
    /\ FetchIdle
    /\ InvokeIdle
    /\ ReconIdle
    /\ ResolveIdle
    /\ FrameIdle
    /\ CreateIdle
    /\ kind \in [Owners -> Kinds]
    /\ runtime \in [Owners -> RuntimeSets]
    /\ sig = [o \in Owners |-> <<>>]
    /\ handles = [o \in Owners |-> EmptyHandles]
    /\ cpc = [o \in Owners |-> "idle"]
    /\ cur = [o \in Owners |-> NoCreds]
    /\ prev = [o \in Owners |-> NoCreds]
    /\ prevEnsure = [o \in Owners |-> "none"]
    /\ before = [o \in Owners |-> [handles |-> EmptyHandles, sig |-> <<>>]]
    /\ built = [o \in Owners |-> <<>>]
    /\ builtPrev = [o \in Owners |-> <<>>]
    /\ used = [o \in Owners |-> {}]

NextCache ==
    \/ \E o \in Owners, p \in ParamSets : BeginInvoke(o, p)
    \/ \E o \in Owners, f \in 0..MaxFailAt : LazyConstruct(o, f)
    \/ \E o \in Owners : UseClients(o)

Spec == InitCache /\ [][NextCache]_vars

(***************************************************************************)
(* Client cache properties                                                 *)
(***************************************************************************)
SigOf(c) == <<c.aws_access_key_id, c.aws_secret_access_key, c.aws_region>>

Occurrences(q, x) == Cardinality({i \in 1..Len(q) : q[i] = x})

\* the previous invocation completed its client-ensure step with the credentials of this one
RepeatedEnsure(o) == prevEnsure[o] = "ok" /\ prev[o] = cur[o]

\* C1: when the client-ensure step runs twice in a row with identical credentials, each slot
\* is constructed at most once: the second run constructs nothing and leaves every handle
\* and the stored signature as they were.
C1_SecondEnsureIsNoOp ==
    \A o \in Owners :
        (cpc[o] \in {"ready", "done", "failed"} /\ RepeatedEnsure(o)) =>
            /\ built[o] = <<>>
            /\ cpc[o] # "failed"
            /\ handles[o] = before[o].handles
            /\ sig[o] = before[o].sig
            /\ \A s \in SlotSet(kind[o]) : Occurrences(builtPrev[o] \o built[o], s) <= 1

C1_Witness ==
    \E o \in Owners :
        /\ cpc[o] = "done" /\ RepeatedEnsure(o)
        /\ kind[o] = "transcribe"
        /\ builtPrev[o] = <<"transcribe_client", "s3_client">>
        /\ used[o] = {handles[o]["transcribe_client"], handles[o]["s3_client"]}

\* C2: when the credentials of this invocation differ from those of the previous one in the
\* access key id, the secret access key or the region, the reset has emptied every slot of the
\* handler and stored the new signature before a slot is read back, and the invocation only
\* uses handles built from its own credentials.
C2_ChangeDiscardsBeforeRead ==
    \A o \in Owners :
        /\ (cpc[o] = "reset" /\ SigOf(prev[o]) # SigOf(cur[o])) =>
                /\ \A s \in SlotSet(kind[o]) : handles[o][s] = NoHandle
                /\ sig[o] = SigOf(cur[o])
        /\ (cpc[o] = "done" /\ SigOf(prev[o]) # SigOf(cur[o])) =>
                \A h \in used[o] : h # NoHandle /\ h.creds = cur[o]

C2_Witness ==
    \E o \in Owners :
        /\ cpc[o] = "reset" /\ prevEnsure[o] = "ok"
        /\ kind[o] = "tts"
        /\ prev[o].aws_region # cur[o].aws_region
        /\ prev[o].aws_access_key_id = cur[o].aws_access_key_id
        /\ prev[o].aws_secret_access_key = cur[o].aws_secret_access_key
        /\ \A s \in SlotSet("tts") : before[o].handles[s] # NoHandle /\ handles[o][s] = NoHandle

\* C3: every cached client that is not empty was constructed from credentials whose
\* (access key id, secret access key, region) equals the signature stored on its owner.
C3_CacheCoherence ==
    \A o \in Owners : \A s \in AllSlots :
        handles[o][s] # NoHandle => SigOf(handles[o][s].creds) = sig[o]

C3_Witness ==
    \E o \in Owners :
        /\ cpc[o] = "done" /\ prevEnsure[o] = "error"
        /\ kind[o] = "dynamodb"
        /\ SigOf(prev[o]) # SigOf(cur[o])
        /\ \E s \in SlotSet("dynamodb") : before[o].handles[s] # NoHandle
        /\ \A s \in SlotSet("dynamodb") : handles[o][s] # NoHandle


(***************************************************************************)
(* Long-running operations: TranscribeTool._transcribe_audio and the       *)
(* synchronous / asynchronous video generation of NovaReelTool             *)
(***************************************************************************)
MaxRequests == 4

RAISE == "<raise>"

\* TranscriptionJobStatus values of the service, and one value outside them
TranscribeWire == {"QUEUED", "IN_PROGRESS", "COMPLETED", "FAILED", "BOGUS"}

\* status values of get_async_invoke, and one value outside them
NovaWire == {"InProgress", "Completed", "Failed", "Bogus"}

WireOf(k) == IF k = "transcribe" THEN TranscribeWire ELSE NovaWire

\* the job state a wire value stands for
Abstract(k, status) ==
    CASE k = "transcribe" /\ status = "QUEUED" -> "SUBMITTED"
      [] k = "transcribe" /\ status = "IN_PROGRESS" -> "IN_PROGRESS"
      [] k = "transcribe" /\ status = "COMPLETED" -> "COMPLETED"
      [] k = "transcribe" /\ status = "FAILED" -> "FAILED"
      [] k = "nova" /\ status = "InProgress" -> "IN_PROGRESS"
      [] k = "nova" /\ status = "Completed" -> "COMPLETED"
      [] k = "nova" /\ status = "Failed" -> "FAILED"
      [] status = RAISE -> "RAISED"
      [] OTHER -> "UNRECOGNISED"

IsTerminal(k, status) == Abstract(k, status) \in {"COMPLETED", "FAILED"}

\* an answer: the status, and whether it carries a failure reason (FailureReason / failureMessage);
\* the n-th answer carries the locator n and the reason n
Answers(k) ==
    {[status |-> st, hasReason |-> hr] : st \in WireOf(k) \cup {RAISE}, hr \in BOOLEAN} \
        {a \in [status : WireOf(k) \cup {RAISE}, hasReason : {TRUE}] : Abstract(k, a.status) # "FAILED"}

\* a job that reached a terminal state stays in it
Monotone(k, q) ==
    \A i, j \in DOMAIN q :
        (i < j /\ IsTerminal(k, q[i].status)) => (q[j] = q[i] \/ q[j].status = RAISE)

Scripts(k) == {q \in [1..MaxRequests -> Answers(k)] : Monotone(k, q)}

\* a plausible slip: only COMPLETED ends the loop
TranscribeTerminal_completed_only(status) == status = "COMPLETED"

\* the loop's exit test
TranscribeTerminal(status) == status \in {"COMPLETED", "FAILED"}

\* what _transcribe_audio returns after the loop, from the n-th answer
TranscribeReturn(n, status) ==
    IF status = "COMPLETED"
    THEN [outcome |-> "completed", loc |-> n, desc |-> "none", from |-> n]
    ELSE [outcome |-> "failed", loc |-> 0, desc |-> "status", from |-> n]

ExceptionResult == [outcome |-> "exception", loc |-> 0, desc |-> "exception", from |-> 0]

\* a plausible slip: the output location read before the loop is used
NovaVideoPath_from_describe(n) == 1

\* status_response["outputDataConfig"]["s3OutputDataConfig"]["s3Uri"] of the n-th answer
NovaVideoPath(n) == n

\* _handle_completed_video: the blob when the download works, a text naming the location otherwise
NovaCompleted(n, downloaded) ==
    [outcome |-> "completed", loc |-> NovaVideoPath(n),
     desc |-> IF downloaded THEN "blob" ELSE "download_failed", from |-> n]

NovaFailed(n, a) ==
    [outcome |-> "failed", loc |-> 0,
     desc |-> IF a.hasReason THEN "reason" ELSE "Unknown error", from |-> n]

NovaUnexpected(n) == [outcome |-> "unexpected_status", loc |-> 0, desc |-> "status", from |-> n]

\* start_transcription_job / start_async_invoke
JobSubmit(raises) ==
    /\ jpc = "start"
    /\ submits' = submits + 1
    /\ IF raises
       THEN jpc' = "done" /\ jresult' = ExceptionResult
       ELSE /\ jpc' = IF jkind = "nova" THEN "describe" ELSE "polling"
            /\ UNCHANGED jresult
    /\ UNCHANGED <<jkind, async_mode, script, requests>>
    /\ UNCHANGED <<cacheVars, fetchVars, invokeVars, reconVars, resolveVars, frameVars, createVars>>

\* NovaReelTool._handle_generation_mode up to the call of _wait_for_completion
NovaDescribe ==
    LET n == Len(requests) + 1
        a == script[n]
    IN /\ jpc = "describe"
       /\ n <= MaxRequests
       /\ requests' = Append(requests, [status |-> a.status, hasReason |-> a.hasReason, inLoop |-> FALSE])
       /\ IF a.status = RAISE
          THEN jpc' = "done" /\ jresult' = ExceptionResult
          ELSE IF async_mode
               THEN /\ jpc' = "done"
                    /\ jresult' = [outcome |-> "started", loc |-> n, desc |-> "none", from |-> n]
               ELSE jpc' = "polling" /\ UNCHANGED jresult
       /\ UNCHANGED <<jkind, async_mode, script, submits>>
       /\ UNCHANGED <<cacheVars, fetchVars, invokeVars, reconVars, resolveVars, frameVars, createVars>>

\* one iteration of `while True` in _transcribe_audio, with the return that follows the break
TranscribePoll(n, a) ==
    IF a.status = RAISE
    THEN jpc' = "done" /\ jresult' = ExceptionResult
    ELSE IF TranscribeTerminal(a.status)
         THEN jpc' = "done" /\ jresult' = TranscribeReturn(n, a.status)
         ELSE jpc' = "sleeping" /\ UNCHANGED jresult

\* one iteration of `while True` in NovaReelTool._wait_for_completion
NovaPoll(n, a, downloaded) ==
    IF a.status = RAISE
    THEN jpc' = "done" /\ jresult' = ExceptionResult
    ELSE IF a.status = "Completed"
         THEN jpc' = "done" /\ jresult' = NovaCompleted(n, downloaded)
         ELSE IF a.status = "Failed"
              THEN jpc' = "done" /\ jresult' = NovaFailed(n, a)
              ELSE IF a.status = "InProgress"
                   THEN jpc' = "sleeping" /\ UNCHANGED jresult
                   ELSE jpc' = "done" /\ jresult' = NovaUnexpected(n)

JobPoll(downloaded) ==
    LET n == Len(requests) + 1
        a == script[n]
    IN /\ jpc = "polling"
       /\ n <= MaxRequests
       /\ (downloaded = FALSE) => (jkind = "nova" /\ a.status = "Completed")
       /\ requests' = Append(requests, [status |-> a.status, hasReason |-> a.hasReason, inLoop |-> TRUE])
       /\ IF jkind = "transcribe" THEN TranscribePoll(n, a) ELSE NovaPoll(n, a, downloaded)
       /\ UNCHANGED <<jkind, async_mode, script, submits>>
       /\ UNCHANGED <<cacheVars, fetchVars, invokeVars, reconVars, resolveVars, frameVars, createVars>>

\* a plausible slip: the loop gives up after a fixed number of status requests
LoopCondition_max_polls(polls) == polls < MaxRequests

\* `while True`: the loop condition after `polls` status requests
LoopCondition(polls) == TRUE

GaveUp == [outcome |-> "gave_up", loc |-> 0, desc |-> "none", from |-> 0]

\* time.sleep(5) / time.sleep(NOVA_REEL_STATUS_CHECK_INTERVAL) returns and the loop condition is tested
JobWake ==
    /\ jpc = "sleeping"
    /\ IF LoopCondition(Len(requests))
       THEN jpc' = "polling" /\ UNCHANGED jresult
       ELSE jpc' = "done" /\ jresult' = GaveUp
    /\ UNCHANGED <<jkind, async_mode, script, submits, requests>>
    /\ UNCHANGED <<cacheVars, fetchVars, invokeVars, reconVars, resolveVars, frameVars, createVars>>

\* the iterations after the MaxRequests-th status request: the job stays in the state of its last
\* answer, and the requests are no longer recorded
JobPollOn ==
    LET n == MaxRequests
        a == script[n]
    IN /\ jpc = "polling"
       /\ Len(requests) = MaxRequests
       /\ IF jkind = "transcribe" THEN TranscribePoll(n, a) ELSE NovaPoll(n, a, TRUE)
       /\ UNCHANGED <<jkind, async_mode, script, submits, requests>>
       /\ UNCHANGED <<cacheVars, fetchVars, invokeVars, reconVars, resolveVars, frameVars, createVars>>

InitJob ==
    /\ CacheIdle
    /\ FetchIdle
    /\ InvokeIdle
    /\ ReconIdle
    /\ ResolveIdle
    /\ FrameIdle
    /\ CreateIdle
    /\ jkind \in {"transcribe", "nova"}
    /\ async_mode \in (IF jkind = "nova" THEN BOOLEAN ELSE {FALSE})
    /\ script \in Scripts(jkind)
    /\ jpc = "start"
    /\ submits = 0
    /\ requests = <<>>
    /\ jresult = NoResult

NextJob ==
    \/ \E raises \in BOOLEAN : JobSubmit(raises)
    \/ NovaDescribe
    \/ \E downloaded \in BOOLEAN : JobPoll(downloaded)
    \/ JobWake
    \/ JobPollOn

SpecJob == InitJob /\ [][NextJob]_vars

\* the thread of the invocation keeps running: a status request returns, a sleep ends
SpecJobFair == SpecJob /\ WF_vars(NextJob)


(***************************************************************************)
(* Job orchestration properties                                            *)
(***************************************************************************)
\* the status requests made by the polling loop (video generation makes one before the loop)
LoopPolls == {i \in 1..Len(requests) : requests[i].inLoop}

FirstLoopPoll == CHOOSE i \in LoopPolls : \A j \in LoopPolls : i <= j

LastStatus == requests[Len(requests)].status

SubmittedOnce ==
    /\ (jpc = "start") => (submits = 0 /\ requests = <<>>)
    /\ (jpc # "start") => submits = 1

NoPollAfterTerminal ==
    \A i \in LoopPolls : IsTerminal(jkind, requests[i].status) => (jpc = "done" /\ i = Len(requests))

\* C4 as stated: the job is submitted exactly once, the polling loop is left only when a poll
\* observed COMPLETED or FAILED, and no poll follows a terminal status.
C4_LoopExitsOnlyOnTerminal ==
    /\ SubmittedOnce
    /\ (jpc = "done" /\ LoopPolls # {}) => IsTerminal(jkind, LastStatus)
    /\ NoPollAfterTerminal

\* C4, amended: the job is submitted exactly once, before any status request; the polling loop
\* is left only when a poll observed COMPLETED or FAILED, or, ending the run with an error,
\* when the status request raised or (video generation) answered an unrecognised status; no
\* poll follows a terminal status observed by the loop.
C4_LoopExits ==
    /\ SubmittedOnce
    /\ (jpc = "done" /\ LoopPolls # {}) =>
            \/ IsTerminal(jkind, LastStatus) /\ jresult.outcome \in {"completed", "failed"}
            \/ LastStatus = RAISE /\ jresult.outcome = "exception"
            \/ /\ jkind = "nova" /\ Abstract(jkind, LastStatus) \in {"UNRECOGNISED"}
               /\ jresult.outcome = "unexpected_status"
    /\ NoPollAfterTerminal

C4_Witness ==
    /\ jkind = "transcribe" /\ jpc = "done" /\ submits = 1
    /\ Len(requests) = 3
    /\ requests[1].status = "QUEUED" /\ requests[2].status = "IN_PROGRESS"
    /\ requests[3].status = "FAILED"
    /\ jresult.outcome = "failed"

InProgressTwiceThenCompleted ==
    /\ Abstract(jkind, script[1].status) = "IN_PROGRESS"
    /\ Abstract(jkind, script[2].status) = "IN_PROGRESS"
    /\ Abstract(jkind, script[3].status) = "COMPLETED"

\* C5: an operation that polls to completion and is answered IN_PROGRESS on its first two
\* status requests and COMPLETED on the third issues exactly 3 status requests and returns
\* the artifact locator of the third answer.
C5_ThreePolls ==
    (~async_mode /\ InProgressTwiceThenCompleted) =>
        /\ Len(requests) <= 3
        /\ (jpc = "done" /\ requests # <<>>) =>
                /\ Len(requests) = 3
                /\ jresult.outcome = "completed"
                /\ jresult.loc = 3 /\ jresult.from = 3

C5_Witness ==
    /\ jkind = "nova" /\ ~async_mode /\ InProgressTwiceThenCompleted
    /\ jpc = "done" /\ Len(requests) = 3 /\ jresult.loc = 3

\* C6: when the first poll reports FAILED the operation polls no further and returns the
\* failure reason of that answer, or "Unknown error" when the answer carries none.
C6_FailedFirstPoll ==
    (LoopPolls # {} /\ Abstract(jkind, requests[FirstLoopPoll].status) = "FAILED") =>
        /\ jpc = "done" /\ Len(requests) = FirstLoopPoll
        /\ jresult.outcome = "failed" /\ jresult.from = FirstLoopPoll
        /\ jresult.desc = IF requests[FirstLoopPoll].hasReason THEN "reason" ELSE "Unknown error"

\* C7: a poll answered with a status outside the recognised ones ends the run with a protocol
\* error that differs from the FAILED outcome; the run never goes on as if it were in progress.
C7_UnrecognisedIsProtocolError ==
    \A i \in LoopPolls :
        Abstract(jkind, requests[i].status) = "UNRECOGNISED" =>
            /\ jpc = "done" /\ i = Len(requests)
            /\ jresult.outcome = "unexpected_status"


(***************************************************************************)
(* The retrying fetches of tools/transcribe_asr.py:                        *)
(* TranscribeTool._download_and_read_transcript, upload_file_from_url_to_s3 *)
(***************************************************************************)
MaxRetries == 3

\* what one pass through the try block can do
\*   ok                the request and everything after it worked
\*   ok_no_transcripts (download) the JSON holds neither speaker labels nor transcripts
\*   transport         requests.get raised ConnectionError or Timeout
\*   http_error        raise_for_status raised HTTPError (401, 403, 404, 5xx)
\*   bad_json          (download) response.json() could not parse the body
\*   bad_shape         (download) the JSON lacks a key the walk reads (KeyError)
\*   s3_error          (upload) upload_fileobj raised ClientError
\*   bad_dest          (upload) upload_fileobj rejected the bucket or key (ParamValidationError)
AttemptOutcomes(k) ==
    IF k = "download"
    THEN {"ok", "ok_no_transcripts", "transport", "http_error", "bad_json", "bad_shape"}
    ELSE {"ok", "transport", "http_error", "s3_error", "bad_dest"}

\* the exceptions caught by `except RequestException`: HTTPError, ConnectionError and Timeout
\* derive from it, and so does the JSONDecodeError of requests from 2.27 on
IsRequestException(outcome) ==
    \/ outcome \in {"transport", "http_error"}
    \/ outcome = "bad_json" /\ jsonErrorIsRequestException

\* a plausible slip: the comparison is off by one
RetryExhausted_off_by_one(rc, mr) == rc = mr + 1

\* `if retry_count == max_retries`
RetryExhausted(rc, mr) == rc = mr

\* the return of an attempt that raised nothing retried, or raised something caught further down
AttemptReturn(k, outcome) ==
    CASE outcome = "ok" -> [outcome |-> "success", named |-> 0]
      [] outcome = "ok_no_transcripts" -> [outcome |-> "no_transcripts", named |-> 0]
      [] outcome = "bad_json" -> [outcome |-> "json_error", named |-> 0]
      [] outcome = "s3_error" -> [outcome |-> "s3_error", named |-> 0]
      [] OTHER -> [outcome |-> "unexpected_error", named |-> 0]

\* the parameter check of upload_file_from_url_to_s3; the download has none
FetchEnter ==
    /\ fpc = "start"
    /\ IF fkind = "upload" /\ finput # "ok"
       THEN fpc' = "done" /\ fresult' = [outcome |-> "invalid_input", named |-> 0]
       ELSE fpc' = "loop" /\ UNCHANGED fresult
    /\ UNCHANGED <<fkind, finput, jsonErrorIsRequestException, max_retries, retry_count, attempts>>
    /\ UNCHANGED <<cacheVars, jobVars, invokeVars, reconVars, resolveVars, frameVars, createVars>>

\* one iteration of `while retry_count < max_retries`
FetchAttempt(outcome) ==
    /\ fpc = "loop"
    /\ retry_count < max_retries
    /\ outcome \in AttemptOutcomes(fkind)
    /\ attempts' = Append(attempts, outcome)
    /\ IF IsRequestException(outcome)
       THEN /\ retry_count' = retry_count + 1
            /\ IF RetryExhausted(retry_count + 1, max_retries)
               THEN fpc' = "done" /\ fresult' = [outcome |-> "exhausted", named |-> max_retries]
               ELSE fpc' = "loop" /\ UNCHANGED fresult
       ELSE /\ fpc' = "done"
            /\ fresult' = AttemptReturn(fkind, outcome)
            /\ UNCHANGED retry_count
    /\ UNCHANGED <<fkind, finput, jsonErrorIsRequestException, max_retries>>
    /\ UNCHANGED <<cacheVars, jobVars, invokeVars, reconVars, resolveVars, frameVars, createVars>>

\* the statement after the loop: return None, "Maximum retries exceeded"
FetchFallThrough ==
    /\ fpc = "loop"
    /\ ~(retry_count < max_retries)
    /\ fpc' = "done"
    /\ fresult' = [outcome |-> "max_retries_exceeded", named |-> 0]
    /\ UNCHANGED <<fkind, finput, jsonErrorIsRequestException, max_retries, retry_count, attempts>>
    /\ UNCHANGED <<cacheVars, jobVars, invokeVars, reconVars, resolveVars, frameVars, createVars>>

InitFetch ==
    /\ CacheIdle
    /\ JobIdle
    /\ InvokeIdle
    /\ ReconIdle
    /\ ResolveIdle
    /\ FrameIdle
    /\ CreateIdle
    /\ fkind \in {"download", "upload"}
    /\ finput \in (IF fkind = "upload" THEN {"ok", "no_url", "no_bucket"} ELSE {"ok"})
    /\ jsonErrorIsRequestException \in BOOLEAN
    /\ max_retries \in 0..MaxRetries
    /\ retry_count = 0
    /\ attempts = <<>>
    /\ fpc = "start"
    /\ fresult = NoFetchResult

NextFetch ==
    \/ FetchEnter
    \/ \E outcome \in AttemptOutcomes("download") \cup AttemptOutcomes("upload") : FetchAttempt(outcome)
    \/ FetchFallThrough

SpecFetch == InitFetch /\ [][NextFetch]_vars

\* every attempt returns (the requests carry timeout=30) and the loop has no other wait
SpecFetchFair == SpecFetch /\ WF_vars(NextFetch)

(***************************************************************************)
(* Retrying fetch properties                                               *)
(***************************************************************************)
AllTransport(q) == \A i \in 1..Len(q) : q[i] = "transport"

\* k transport failures followed by a success
TransportThenOk(q) ==
    /\ Len(q) >= 1
    /\ q[Len(q)] = "ok"
    /\ AllTransport(SubSeq(q, 1, Len(q) - 1))

C8_RetryBudget ==
    (max_retries >= 1 /\ fpc # "start" /\ (fkind = "upload" => finput = "ok")) =>
        /\ Len(attempts) <= max_retries
        /\ (fpc = "loop" /\ AllTransport(attempts)) => Len(attempts) < max_retries
        /\ (fpc = "done" /\ TransportThenOk(attempts)) => fresult.outcome = "success"
        /\ TransportThenOk(attempts) => fpc = "done"
        /\ (fpc = "done" /\ AllTransport(attempts)) =>
                /\ Len(attempts) = max_retries
                /\ fresult = [outcome |-> "exhausted", named |-> max_retries]

\* C8: for max_retries >= 1, a source that fails in transport k < max_retries times and then
\* answers gives success after exactly k+1 attempts; a source that fails in transport on every
\* attempt gives, after exactly max_retries attempts, the error that names the attempt count;
\* and the call always returns.
C8_RetryingFetch == []C8_RetryBudget /\ <>(fpc = "done")

C8_Witness ==
    /\ fkind = "download" /\ max_retries = 3 /\ fpc = "done"
    /\ attempts = <<"transport", "transport", "ok">>
    /\ fresult.outcome = "success"

NonTransient == {"http_error", "bad_json", "s3_error", "bad_dest"}

\* C9: a failure that is not a transport failure (an HTTP 401/403 raised by raise_for_status,
\* a malformed destination, a body that is not JSON, a storage-service error) ends the call on
\* the attempt where it occurs, with an error other than the exhausted-retries one.
C9_NonTransientStopsAtOnce ==
    \A i \in 1..Len(attempts) :
        attempts[i] \in NonTransient =>
            /\ fpc = "done" /\ i = Len(attempts)
            /\ fresult.outcome \notin {"exhausted", "success", "none"}


(***************************************************************************)
(* The _invoke generators of TranscribeTool, S3Operator and                *)
(* BedrockRetrieveTool: the messages they yield and the remote calls they  *)
(* make, stage by stage                                                    *)
(***************************************************************************)
\* `not x` for the values a local can hold (upload_file_from_url_to_s3 returns False for bad input)
Not(x) == x \in {None, "", "False"}

\* an excerpt of LanguageCodeOptions
LanguageCodeOptions == {"en-US", "ja-JP"}

\* a message intended as a failure description / as the result of the invocation
Failure(text) == [tag |-> "failure", text |-> text]
Success(text) == [tag |-> "success", text |-> text]

Call(op, arg) == [op |-> op, arg |-> arg]

\* tool_parameters.get("identify_language", True) / .get("identify_multiple_languages", False)
IdentifyLanguage(tp) == tp.identify_language \in {"absent", "true"}
IdentifyMultipleLanguages(tp) == tp.identify_multiple_languages = "true"

ModeConflict(tp) ==
    IF Not(tp.language_code)
    THEN IdentifyLanguage(tp) /\ IdentifyMultipleLanguages(tp)
    ELSE IdentifyLanguage(tp) \/ IdentifyMultipleLanguages(tp)

TranscribeParams ==
    [s3_bucket_name : {None, "bucket"},
     file_url : {None, "https://host/a.mp3"},
     language_code : {None, "en-US", "xx-XX"},
     identify_language : {"absent", "true", "false"},
     identify_multiple_languages : {"absent", "true"},
     language_options : {<<>>, <<"en-US", "ja-JP">>, <<"xx-XX", "en-US">>}]

S3OperatorParams ==
    [s3_uri : {None, "s3://bucket/key", "http://bucket/key", "s3://", "s3:///key"},
     operation_type : {"read", "write"},
     text_content : {None, "", "text"},
     generate_presign_url : BOOLEAN]

BedrockRetrieveParams ==
    [knowledge_base_id : {None, "kb1", "kb2"},
     query : {"", "q"},
     metadata_filter : {None, "{}", "{"},
     search_type : {"HYBRID", "KEYWORD"},
     result_type : {"json", "text"}]

\* image_input_s3uri is left absent
NovaReelParams ==
    [prompt : {"", "p"},
     video_output_s3uri : {"", "s3://", "s3://bucket/out", "http://bucket/out"}]

S3FileDownloadParams ==
    [s3_uri : {None, "s3://bucket/key", "http://bucket/key", "s3://", "s3:///key", "s3://bucket"}]

ParamsOf(k) ==
    CASE k = "transcribe" -> TranscribeParams
      [] k = "s3_operator" -> S3OperatorParams
      [] k = "bedrock_retrieve" -> BedrockRetrieveParams
      [] k = "nova_reel" -> NovaReelParams
      [] k = "s3_file_download" -> S3FileDownloadParams

\* TranscribeTool._invoke up to the lazy construction; `raises`: a boto3.client call raised,
\* which `except Exception` turns into a message
TranscribeEnsure(raises) ==
    /\ hkind = "transcribe" /\ hpc = "ensure"
    /\ out' = IF raises THEN Append(out, Failure("Exception")) ELSE out
    /\ hpc' = IF raises THEN "done" ELSE "validate"
    /\ UNCHANGED <<invocations, hkind, hp, noneTextRaises, cached_kb, hv, calls>>
    /\ UNCHANGED <<cacheVars, jobVars, fetchVars, reconVars, resolveVars, frameVars, createVars>>

\* S3Operator._invoke up to the lazy construction. When boto3.client raises, s3_client is
\* still None and matching the exception evaluates `self.s3_client.exceptions.NoSuchBucket`,
\* which raises AttributeError out of the generator
S3Ensure(raises) ==
    /\ hkind = "s3_operator" /\ hpc = "ensure"
    /\ hpc' = IF raises THEN "crashed" ELSE "validate"
    /\ UNCHANGED <<invocations, hkind, hp, noneTextRaises, cached_kb, hv, out, calls>>
    /\ UNCHANGED <<cacheVars, jobVars, fetchVars, reconVars, resolveVars, frameVars, createVars>>

\* the first try block of BedrockRetrieveTool._invoke: its except clause yields a message
\* and the handler goes on with the second try block
BedrockEnsure(raises) ==
    /\ hkind = "bedrock_retrieve" /\ hpc = "ensure"
    /\ out' = IF raises THEN Append(out, Failure("Failed to initialize Bedrock client")) ELSE out
    /\ hv' = [hv EXCEPT !.client_ok = ~raises]
    /\ hpc' = "validate"
    /\ UNCHANGED <<invocations, hkind, hp, noneTextRaises, cached_kb, calls>>
    /\ UNCHANGED <<cacheVars, jobVars, fetchVars, reconVars, resolveVars, frameVars, createVars>>

\* the parameter checks of TranscribeTool._invoke, in the order of their yields
TranscribeChecks(tp) ==
    (IF Not(tp.s3_bucket_name) THEN <<Failure("s3_bucket_name is required")>> ELSE <<>>)
    \o [i \in 1..Len(SelectSeq(tp.language_options, LAMBDA l : l \notin LanguageCodeOptions)) |->
            Failure("language option is not supported")]
    \o (IF ~Not(tp.language_code) /\ tp.language_code \notin LanguageCodeOptions
        THEN <<Failure("language_code is not supported")>> ELSE <<>>)
    \o (IF ModeConflict(tp) THEN <<Failure("must include one of LanguageCode, IdentifyLanguage")>> ELSE <<>>)

TranscribeValidate ==
    /\ hkind = "transcribe" /\ hpc = "validate"
    /\ out' = out \o TranscribeChecks(hp)
    /\ hpc' = "upload"
    /\ UNCHANGED <<invocations, hkind, hp, noneTextRaises, cached_kb, hv, calls>>
    /\ UNCHANGED <<cacheVars, jobVars, fetchVars, reconVars, resolveVars, frameVars, createVars>>

\* s3_path_result, error = upload_file_from_url_to_s3(...); if not s3_path_result: yield error
TranscribeUpload(res) ==
    /\ hkind = "transcribe" /\ hpc = "upload"
    /\ res \in {"ok", "error"}
    /\ IF Not(hp.file_url) \/ Not(hp.s3_bucket_name)
       THEN /\ res = "error"
            /\ hv' = [hv EXCEPT !.s3_path = "False"]
            /\ out' = Append(out, Failure("URL and bucket name are required"))
            /\ UNCHANGED calls
       ELSE /\ hv' = [hv EXCEPT !.s3_path = IF res = "ok" THEN "s3://bucket/key" ELSE None]
            /\ out' = IF res = "ok" THEN out ELSE Append(out, Failure("upload error"))
            /\ calls' = Append(calls, Call("upload_file_from_url_to_s3", hp.file_url))
    /\ hpc' = "job"
    /\ UNCHANGED <<invocations, hkind, hp, noneTextRaises, cached_kb>>
    /\ UNCHANGED <<cacheVars, jobVars, fetchVars, reconVars, resolveVars, frameVars, createVars>>

\* transcript_file_uri, error = self._transcribe_audio(...); if not transcript_file_uri: yield error
\* (a MediaFileUri that is not a string is refused by the client before a request is sent)
TranscribeJob(res) ==
    /\ hkind = "transcribe" /\ hpc = "job"
    /\ res \in {"completed", "failed", "exception"}
    /\ Not(hv.s3_path) => res = "exception"
    /\ calls' = Append(calls, Call("start_transcription_job", hv.s3_path))
    /\ hv' = [hv EXCEPT !.uri = IF res = "completed" THEN "https://transcript" ELSE None]
    /\ out' = IF res = "completed" THEN out ELSE Append(out, Failure("Error: job"))
    /\ hpc' = "download"
    /\ UNCHANGED <<invocations, hkind, hp, noneTextRaises, cached_kb>>
    /\ UNCHANGED <<cacheVars, jobVars, fetchVars, reconVars, resolveVars, frameVars, createVars>>

\* transcript_text, error = self._download_and_read_transcript(...); if not transcript_text: yield error
\* (requests.get(None) raises MissingSchema, a RequestException, on each of the three attempts)
TranscribeDownload(res) ==
    /\ hkind = "transcribe" /\ hpc = "download"
    /\ res \in {"text", "empty", "error"}
    /\ Not(hv.uri) => res = "error"
    /\ calls' = Append(calls, Call("requests.get", hv.uri))
    /\ hv' = [hv EXCEPT !.text = CASE res = "text" -> "transcript" [] res = "empty" -> "" [] OTHER -> None]
    /\ CASE res = "text" -> hpc' = "finish" /\ UNCHANGED out
         [] res = "error" -> hpc' = "finish" /\ out' = Append(out, Failure("download error"))
         [] res = "empty" ->
                \* error is None here: yield self.create_text_message(text=None)
                IF noneTextRaises
                THEN hpc' = "done" /\ out' = Append(out, Failure("Exception"))
                ELSE hpc' = "finish" /\ out' = Append(out, Failure(None))
    /\ UNCHANGED <<invocations, hkind, hp, noneTextRaises, cached_kb>>
    /\ UNCHANGED <<cacheVars, jobVars, fetchVars, reconVars, resolveVars, frameVars, createVars>>

\* yield self.create_text_message(text=transcript_text)
TranscribeFinish ==
    /\ hkind = "transcribe" /\ hpc = "finish"
    /\ out' = IF hv.text = None /\ noneTextRaises
              THEN Append(out, Failure("Exception"))
              ELSE Append(out, Success(hv.text))
    /\ hpc' = "done"
    /\ UNCHANGED <<invocations, hkind, hp, noneTextRaises, cached_kb, hv, calls>>
    /\ UNCHANGED <<cacheVars, jobVars, fetchVars, reconVars, resolveVars, frameVars, createVars>>


\* urlparse(s3_uri).scheme; urlparse(None) gives bytes components, whose scheme is b""
UriScheme(s3_uri) ==
    CASE s3_uri = None -> ""
      [] s3_uri \in {"http://bucket/key", "http://bucket/out"} -> "http"
      [] OTHER -> "s3"

\* urlparse(s3_uri).netloc and .path
UriNetloc(s3_uri) ==
    IF s3_uri \in {"s3://bucket/key", "http://bucket/key", "s3://bucket", "s3://bucket/out", "http://bucket/out"}
    THEN "bucket" ELSE ""

UriPath(s3_uri) ==
    CASE s3_uri \in {"s3://bucket/key", "http://bucket/key", "s3:///key"} -> "/key"
      [] s3_uri \in {"s3://bucket/out", "http://bucket/out"} -> "/out"
      [] OTHER -> ""

\* the messages of S3Operator._invoke before its first client call
S3Checks(tp) ==
    (IF Not(tp.s3_uri) THEN <<Failure("s3_uri parameter is required")>> ELSE <<>>)
    \o (IF UriScheme(tp.s3_uri) # "s3" THEN <<Failure("Invalid S3 URI format")>> ELSE <<>>)
    \o (IF tp.s3_uri = None
        \* parsed_uri.path.lstrip("/") on a bytes path raises TypeError
        THEN <<Failure("Exception")>>
        ELSE IF tp.operation_type = "write" /\ Not(tp.text_content)
             THEN <<Failure("text_content parameter is required for write operation")>>
                  \* None.encode raises AttributeError
                  \o (IF tp.text_content = None THEN <<Failure("Exception")>> ELSE <<>>)
             ELSE <<>>)

\* the handler stops before the client call when an exception was raised by then
S3Raised(tp) ==
    \/ tp.s3_uri = None
    \/ tp.operation_type = "write" /\ tp.text_content = None

S3Validate ==
    /\ hkind = "s3_operator" /\ hpc = "validate"
    /\ out' = out \o S3Checks(hp)
    /\ hpc' = IF S3Raised(hp) THEN "done" ELSE "operate"
    /\ UNCHANGED <<invocations, hkind, hp, noneTextRaises, cached_kb, hv, calls>>
    /\ UNCHANGED <<cacheVars, jobVars, fetchVars, reconVars, resolveVars, frameVars, createVars>>

S3Call(tp) ==
    CASE tp.operation_type = "write" -> "put_object"
      [] tp.generate_presign_url -> "generate_presigned_url"
      [] OTHER -> "get_object"

\* put_object / get_object / generate_presigned_url, the final yield and the except clauses;
\* the client refuses an empty Bucket before it sends anything, and the handler reports
\* that exception like any other
S3Operate(res) ==
    /\ hkind = "s3_operator" /\ hpc = "operate"
    /\ res \in {"ok", "NoSuchBucket", "NoSuchKey", "error"}
    /\ UriNetloc(hp.s3_uri) = "" => res = "error"
    /\ S3Call(hp) = "generate_presigned_url" => res = "ok"
    /\ S3Call(hp) = "put_object" => res # "NoSuchKey"
    /\ calls' = Append(calls, Call(S3Call(hp), UriNetloc(hp.s3_uri)))
    /\ out' = Append(out, IF res = "ok" THEN Success("result") ELSE Failure(res))
    /\ hpc' = "done"
    /\ UNCHANGED <<invocations, hkind, hp, noneTextRaises, cached_kb, hv>>
    /\ UNCHANGED <<cacheVars, jobVars, fetchVars, reconVars, resolveVars, frameVars, createVars>>

\* self.knowledge_base_id after `if not self.knowledge_base_id: self.knowledge_base_id = ...`
KnowledgeBaseId(cached, tp) == IF Not(cached) THEN tp.knowledge_base_id ELSE cached

BedrockChecks(cached, tp) ==
    (IF Not(KnowledgeBaseId(cached, tp)) THEN <<Failure("Please provide knowledge_base_id")>> ELSE <<>>)
    \o (IF Not(tp.query) THEN <<Failure("Please input query")>> ELSE <<>>)
    \* json.loads of a malformed metadata_filter raises
    \o (IF tp.metadata_filter = "{" THEN <<Failure("Exception")>> ELSE <<>>)

BedrockValidate ==
    /\ hkind = "bedrock_retrieve" /\ hpc = "validate"
    /\ cached_kb' = KnowledgeBaseId(cached_kb, hp)
    /\ out' = out \o BedrockChecks(cached_kb, hp)
    /\ hpc' = IF hp.metadata_filter = "{" THEN "done" ELSE "operate"
    /\ UNCHANGED <<invocations, hkind, hp, noneTextRaises, hv, calls>>
    /\ UNCHANGED <<cacheVars, jobVars, fetchVars, reconVars, resolveVars, frameVars, createVars>>

\* _bedrock_retrieve raises before calling the client: unsupported search_type, or no client
BedrockRaisesLocally(tp, locals) == tp.search_type \notin {"HYBRID", "SEMANTIC"} \/ ~locals.client_ok

\* retrieved_docs = self._bedrock_retrieve(...) and the yield of the result
BedrockOperate(res) ==
    /\ hkind = "bedrock_retrieve" /\ hpc = "operate"
    /\ res \in {"ok", "error"}
    /\ IF BedrockRaisesLocally(hp, hv)
       THEN res = "error" /\ UNCHANGED calls
       ELSE /\ Not(cached_kb) => res = "error"
            /\ calls' = Append(calls, Call("retrieve", cached_kb))
    /\ out' = Append(out, IF res = "ok" THEN Success(hp.result_type) ELSE Failure("Exception"))
    /\ hpc' = "done"
    /\ UNCHANGED <<invocations, hkind, hp, noneTextRaises, cached_kb, hv>>
    /\ UNCHANGED <<cacheVars, jobVars, fetchVars, reconVars, resolveVars, frameVars, createVars>>

\* the message _validate_and_extract_parameters returns instead of the parameters
NovaValidationMessage(tp) ==
    CASE tp.prompt = "" -> "Please provide a text prompt"
      [] tp.video_output_s3uri = "" -> "Please provide an S3 URI"
      \* not video_output_s3uri.startswith("s3://")
      [] UriScheme(tp.video_output_s3uri) # "s3" -> "Invalid S3 URI format"
      [] OTHER -> None

\* video_output_s3uri with the trailing "/" added when missing
NovaOutputUri(tp) ==
    IF tp.video_output_s3uri = "s3://bucket/out" THEN "s3://bucket/out/" ELSE tp.video_output_s3uri

\* NovaReelTool._invoke up to `params["aws_region"]`: a validation message is yielded and
\* subscripting it raises TypeError, which `except Exception` reports as a second message
NovaValidate ==
    /\ hkind = "nova_reel" /\ hpc = "validate"
    /\ IF NovaValidationMessage(hp) # None
       THEN /\ out' = out \o <<Failure(NovaValidationMessage(hp)), Failure("Failed to generate video")>>
            /\ hpc' = "done"
       ELSE /\ hpc' = "operate"
            /\ UNCHANGED out
    /\ UNCHANGED <<invocations, hkind, hp, noneTextRaises, cached_kb, hv, calls>>
    /\ UNCHANGED <<cacheVars, jobVars, fetchVars, reconVars, resolveVars, frameVars, createVars>>

\* client construction, start_async_invoke, _handle_generation_mode and the except clauses
NovaGenerate(res) ==
    /\ hkind = "nova_reel" /\ hpc = "operate"
    /\ res \in {"init_error", "client_error", "ok"}
    /\ calls' = CASE res = "init_error" -> calls
                  [] res = "client_error" -> Append(calls, Call("start_async_invoke", NovaOutputUri(hp)))
                  [] res = "ok" -> calls \o <<Call("start_async_invoke", NovaOutputUri(hp)),
                                              Call("get_async_invoke", "arn")>>
    /\ out' = Append(out, CASE res = "init_error" -> Failure("Failed to generate video")
                            [] res = "client_error" -> Failure("AWS service error")
                            [] res = "ok" -> Success("video"))
    /\ hpc' = "done"
    /\ UNCHANGED <<invocations, hkind, hp, noneTextRaises, cached_kb, hv>>
    /\ UNCHANGED <<cacheVars, jobVars, fetchVars, reconVars, resolveVars, frameVars, createVars>>

\* the first try block of S3FileDownload._invoke: a failed construction is reported and ends the call
S3DownloadEnsure(raises) ==
    /\ hkind = "s3_file_download" /\ hpc = "ensure"
    /\ out' = IF raises THEN Append(out, Failure("Failed to initialize AWS client")) ELSE out
    /\ hpc' = IF raises THEN "done" ELSE "validate"
    /\ UNCHANGED <<invocations, hkind, hp, noneTextRaises, cached_kb, hv, calls>>
    /\ UNCHANGED <<cacheVars, jobVars, fetchVars, reconVars, resolveVars, frameVars, createVars>>

S3DownloadRejects(s3_uri) ==
    UriScheme(s3_uri) # "s3" \/ UriNetloc(s3_uri) = "" \/ UriPath(s3_uri) = ""

\* the locator checks of S3FileDownload._invoke, each followed by return
S3DownloadValidate ==
    /\ hkind = "s3_file_download" /\ hpc = "validate"
    /\ out' = CASE Not(hp.s3_uri) -> Append(out, Failure("s3_uri parameter is required"))
                [] S3DownloadRejects(hp.s3_uri) -> Append(out, Failure("Invalid S3 URI format"))
                [] OTHER -> out
    /\ hpc' = IF Not(hp.s3_uri) \/ S3DownloadRejects(hp.s3_uri) THEN "done" ELSE "operate"
    /\ UNCHANGED <<invocations, hkind, hp, noneTextRaises, cached_kb, hv, calls>>
    /\ UNCHANGED <<cacheVars, jobVars, fetchVars, reconVars, resolveVars, frameVars, createVars>>

\* get_object, its except clauses, and the payload (blob, metadata json and text) as one result
S3DownloadOperate(res) ==
    /\ hkind = "s3_file_download" /\ hpc = "operate"
    /\ res \in {"ok", "NoSuchBucket", "NoSuchKey", "error"}
    /\ calls' = Append(calls, Call("get_object", UriNetloc(hp.s3_uri)))
    /\ out' = Append(out, IF res = "ok" THEN Success("file") ELSE Failure(res))
    /\ hpc' = "done"
    /\ UNCHANGED <<invocations, hkind, hp, noneTextRaises, cached_kb, hv>>
    /\ UNCHANGED <<cacheVars, jobVars, fetchVars, reconVars, resolveVars, frameVars, createVars>>

MaxInvocations == 2

\* the next invocation on a BedrockRetrieveTool instance: new parameters and new locals,
\* the instance attributes stay (the other handlers of this specification keep nothing
\* on the instance but the client cache)
InvokeAgain(tool_parameters) ==
    /\ hkind = "bedrock_retrieve" /\ hpc = "done"
    /\ invocations < MaxInvocations
    /\ tool_parameters \in BedrockRetrieveParams
    /\ invocations' = invocations + 1
    /\ hp' = tool_parameters
    /\ hpc' = "ensure"
    /\ hv' = NoLocals
    /\ out' = <<>>
    /\ calls' = <<>>
    /\ UNCHANGED <<hkind, noneTextRaises, cached_kb>>
    /\ UNCHANGED <<cacheVars, jobVars, fetchVars, reconVars, resolveVars, frameVars, createVars>>

HandlerKinds == {"transcribe", "s3_operator", "bedrock_retrieve", "nova_reel", "s3_file_download"}

InitInvoke ==
    /\ CacheIdle /\ JobIdle /\ FetchIdle /\ ReconIdle /\ ResolveIdle /\ FrameIdle /\ CreateIdle
    /\ hkind \in HandlerKinds
    /\ hp \in ParamsOf(hkind)
    /\ noneTextRaises \in (IF hkind = "transcribe" THEN BOOLEAN ELSE {FALSE})
    \* the class attribute knowledge_base_id is None on a new instance
    /\ cached_kb = None
    /\ invocations = 1
    \* NovaReelTool keeps no client: its handler starts with the parameter checks
    /\ hpc = IF hkind = "nova_reel" THEN "validate" ELSE "ensure"
    /\ hv = NoLocals
    /\ out = <<>>
    /\ calls = <<>>

NextInvoke ==
    \/ \E raises \in BOOLEAN : TranscribeEnsure(raises)
    \/ \E raises \in BOOLEAN : S3Ensure(raises)
    \/ \E raises \in BOOLEAN : BedrockEnsure(raises)
    \/ TranscribeValidate
    \/ \E res \in {"ok", "error"} : TranscribeUpload(res)
    \/ \E res \in {"completed", "failed", "exception"} : TranscribeJob(res)
    \/ \E res \in {"text", "empty", "error"} : TranscribeDownload(res)
    \/ TranscribeFinish
    \/ S3Validate
    \/ \E res \in {"ok", "NoSuchBucket", "NoSuchKey", "error"} : S3Operate(res)
    \/ BedrockValidate
    \/ \E res \in {"ok", "error"} : BedrockOperate(res)
    \/ \E tool_parameters \in BedrockRetrieveParams : InvokeAgain(tool_parameters)
    \/ NovaValidate
    \/ \E res \in {"init_error", "client_error", "ok"} : NovaGenerate(res)
    \/ \E raises \in BOOLEAN : S3DownloadEnsure(raises)
    \/ S3DownloadValidate
    \/ \E res \in {"ok", "NoSuchBucket", "NoSuchKey", "error"} : S3DownloadOperate(res)

SpecInvoke == InitInvoke /\ [][NextInvoke]_vars

\* C10: every invocation of a handler yields exactly one outcome: a message that
\* describes a failure is never followed by another message, and a finished
\* invocation has yielded exactly one message, a success payload or a failure
\* description.
C10_ExactlyOneOutcome ==
    /\ \A i \in 1..(Len(out) - 1) : out[i].tag # "failure"
    /\ hpc \in {"done", "crashed"} => Len(out) = 1

\* the texts with which the handlers report a rejected parameter
ValidationTexts ==
    {"s3_bucket_name is required", "language option is not supported",
     "language_code is not supported", "must include one of LanguageCode, IdentifyLanguage",
     "URL and bucket name are required",
     "s3_uri parameter is required", "Invalid S3 URI format",
     "text_content parameter is required for write operation",
     "Please provide knowledge_base_id", "Please input query",
     "Please provide a text prompt", "Please provide an S3 URI"}

\* a call that sends a request: generate_presigned_url signs locally, and a client
\* operation given None or False where a string is required is refused before sending
IsNetworkCall(c) == c.op # "generate_presigned_url" /\ ~Not(c.arg)

ValidationReported == \E i \in 1..Len(out) : out[i].text \in ValidationTexts

\* C11: in an invocation that reported a validation error no network call
\* (download, upload, job submission, object read or write, retrieve) is made;
\* the handlers validate before their first call, so a network call recorded in
\* such an invocation was made after the report.
C11_NoNetworkAfterValidationError ==
    ValidationReported => \A j \in 1..Len(calls) : ~IsNetworkCall(calls[j])

\* the number of language-selection modes in extra_args: LanguageCode when language_code
\* is given, IdentifyLanguage and IdentifyMultipleLanguages when true
ModesSelected(tp) ==
    (IF Not(tp.language_code) THEN 0 ELSE 1)
    + (IF IdentifyLanguage(tp) THEN 1 ELSE 0)
    + (IF IdentifyMultipleLanguages(tp) THEN 1 ELSE 0)

JobSubmitted ==
    \E j \in 1..Len(calls) : calls[j].op = "start_transcription_job" /\ IsNetworkCall(calls[j])

\* C12: a transcription job is submitted (start_transcription_job sends a request)
\* only when exactly one of language_code, identify_language and
\* identify_multiple_languages is selected, defaults included.
C12_JobOnlyWithOneMode ==
    (hkind = "transcribe" /\ JobSubmitted) => ModesSelected(hp) = 1

\* the locator a handler parses, for the handlers that take one
LocatorKinds == {"s3_operator", "s3_file_download", "nova_reel"}
LocatorOf(k, tp) == IF k = "nova_reel" THEN tp.video_output_s3uri ELSE tp.s3_uri

\* an s3 locator whose bucket component is missing
MissingBucket ==
    /\ hkind \in LocatorKinds
    /\ LocatorOf(hkind, hp) \in {"s3://", "s3:///key"}

\* C13: a handler given a locator with no bucket component rejects it: it sends
\* no request and the invocation yields a failure description and no success payload.
C13_MissingBucketRejected ==
    MissingBucket =>
        /\ \A j \in 1..Len(calls) : ~IsNetworkCall(calls[j])
        /\ \A i \in 1..Len(out) : out[i].tag = "failure"
        /\ hpc = "done" => Len(out) > 0

\* C14: no exception escapes a handler's invocation entry point: whatever the
\* parameters and whichever construction or remote call fails, the generator
\* ends normally after describing the failure, also when the cached client
\* handle is still empty while the failure is handled.
C14_NoExceptionEscapes == hpc # "crashed"

(***************************************************************************)
(* Transcript reconstruction: the part of _download_and_read_transcript    *)
(* that turns the parsed JSON document into text.  A string is a sequence  *)
(* of atoms (a word, a punctuation mark, a bracketed speaker label, " " or *)
(* "\n"), so that joining and stripping are computed, not assumed          *)
(***************************************************************************)
MaxItems == 3
MaxSegments == 2

Times == {"0.0", "1.0"}
Speakers == {"spk0", "spk1"}

\* results.items entries: alternatives[0].content, type and the time the item is at
ItemSet ==
    {[type |-> "pronunciation", start_time |-> "0.0", content |-> "Hello"],
     [type |-> "pronunciation", start_time |-> "1.0", content |-> "world"],
     [type |-> "punctuation", start_time |-> "0.0", content |-> ","],
     [type |-> "punctuation", start_time |-> "1.0", content |-> "."]}

\* results.speaker_labels.segments entries: the label and the start times of its items
SegmentSet == [speaker_label : Speakers, items : {<<"0.0">>, <<"1.0">>, <<"0.0", "1.0">>}]

SeqsUpTo(S, n) == UNION {[1..k -> S] : k \in 0..n}

\* the transcript field the service writes for the items: words separated by a space,
\* punctuation attached to the word before it
RECURSIVE ServiceFlat(_)
ServiceFlat(its) ==
    IF its = <<>> THEN <<>>
    ELSE LET front == ServiceFlat(SubSeq(its, 1, Len(its) - 1))
             item == its[Len(its)]
         IN IF item.type = "pronunciation" /\ front # <<>>
            THEN front \o <<" ", item.content>>
            ELSE Append(front, item.content)

Whitespace == {" ", "\n"}

\* " ".join(parts)
RECURSIVE Join(_)
Join(parts) ==
    IF parts = <<>> THEN <<>>
    ELSE IF Len(parts) = 1 THEN parts[1]
    ELSE parts[1] \o <<" ">> \o Join(Tail(parts))

\* str.strip()
RECURSIVE LStrip(_)
LStrip(str) == IF str # <<>> /\ Head(str) \in Whitespace THEN LStrip(Tail(str)) ELSE str

RECURSIVE RStrip(_)
RStrip(str) ==
    IF str # <<>> /\ str[Len(str)] \in Whitespace THEN RStrip(SubSeq(str, 1, Len(str) - 1)) ELSE str

Strip(str) == RStrip(LStrip(str))

\* f"[{speaker}]:" for the values speaker can take
Label(speaker) ==
    CASE speaker = "spk0" -> "[spk0]:"
      [] speaker = "spk1" -> "[spk1]:"
      [] OTHER -> "[None]:"

\* f"\n[{speaker}]: "
Marker(speaker) == <<"\n", Label(speaker), " ">>

\* a plausible slip: time_to_speaker.setdefault(k, v), the first segment wins
Put_keep_first(m, k, v) == [x \in (DOMAIN m) \cup {k} |-> IF x \in DOMAIN m THEN m[x] ELSE v]

\* time_to_speaker[k] = v
Put(m, k, v) == [x \in (DOMAIN m) \cup {k} |-> IF x = k THEN v ELSE m[x]]

\* time_to_speaker.get(k)
Get(m, k) == IF k \in DOMAIN m THEN m[k] ELSE None

RECURSIVE PutAll(_, _, _)
PutAll(m, times, label) ==
    IF times = <<>> THEN m ELSE PutAll(Put(m, Head(times), label), Tail(times), label)

\* the two nested loops that fill time_to_speaker
RECURSIVE BuildTimeToSpeaker(_, _)
BuildTimeToSpeaker(m, segments) ==
    IF segments = <<>> THEN m
    ELSE BuildTimeToSpeaker(PutAll(m, Head(segments).items, Head(segments).speaker_label), Tail(segments))

SpeakerChanged_any_speaker(speaker, current) == speaker # None

\* if speaker != current_speaker
SpeakerChanged(speaker, current) == speaker # current

Walked(speaker, parts) == [current_speaker |-> speaker, parts |-> parts]

WalkItem_no_continue(current, parts, m, item) ==
    LET speaker == Get(m, item.start_time)
    IN IF SpeakerChanged(speaker, current)
       THEN Walked(speaker, parts \o <<Marker(speaker), <<item.content>>>>)
       ELSE Walked(current, Append(parts, <<item.content>>))

\* a plausible slip: time_to_speaker.get(start_time, current_speaker), an unmapped item keeps
\* the speaker of the item before it
WalkItem_unmapped_keeps_speaker(current, parts, m, item) ==
    IF item.type = "punctuation"
    THEN Walked(current, Append(parts, <<item.content>>))
    ELSE LET speaker == IF item.start_time \in DOMAIN m THEN m[item.start_time] ELSE current
         IN IF SpeakerChanged(speaker, current)
            THEN Walked(speaker, parts \o <<Marker(speaker), <<item.content>>>>)
            ELSE Walked(current, Append(parts, <<item.content>>))

\* one iteration of `for item in items`
WalkItem(current, parts, m, item) ==
    IF item.type = "punctuation"
    THEN Walked(current, Append(parts, <<item.content>>))
    ELSE LET speaker == Get(m, item.start_time)
         IN IF SpeakerChanged(speaker, current)
            THEN Walked(speaker, parts \o <<Marker(speaker), <<item.content>>>>)
            ELSE Walked(current, Append(parts, <<item.content>>))

Returned(text) == [text |-> text, error |-> None, ok |-> TRUE]
Errored(error) == [text |-> <<>>, error |-> error, ok |-> FALSE]

\* the documents the service can answer with: speaker labels make the handler walk the
\* items; without them the transcripts array is absent, empty or holds the flat text
Documents ==
    {[has_segments |-> hs, segments |-> sg, items |-> its,
      has_transcripts |-> tm # "absent",
      transcripts |-> IF tm = "flat" THEN <<ServiceFlat(its)>> ELSE <<>>] :
        <<hs, sg, its, tm>> \in
            {q \in BOOLEAN \X SeqsUpTo(SegmentSet, MaxSegments) \X SeqsUpTo(ItemSet, MaxItems)
                     \X {"absent", "empty", "flat"} :
                /\ ~q[1] => q[2] = <<>>
                /\ q[1] => q[4] = "flat"}}

\* has_speaker_labels is true: fill time_to_speaker and start the walk
ReconBuild ==
    /\ rpc = "start"
    /\ transcript_data.has_segments
    /\ time_to_speaker' = BuildTimeToSpeaker(<<>>, transcript_data.segments)
    /\ current_speaker' = None
    /\ transcript_parts' = <<>>
    /\ item_idx' = 1
    /\ rpc' = "walk"
    /\ UNCHANGED <<transcript_data, rresult>>
    /\ UNCHANGED <<cacheVars, jobVars, fetchVars, invokeVars, resolveVars, frameVars, createVars>>

ReconItem ==
    /\ rpc = "walk"
    /\ item_idx <= Len(transcript_data.items)
    /\ LET w == WalkItem(current_speaker, transcript_parts, time_to_speaker,
                         transcript_data.items[item_idx])
       IN /\ current_speaker' = w.current_speaker
          /\ transcript_parts' = w.parts
    /\ item_idx' = item_idx + 1
    /\ UNCHANGED <<transcript_data, time_to_speaker, rpc, rresult>>
    /\ UNCHANGED <<cacheVars, jobVars, fetchVars, invokeVars, resolveVars, frameVars, createVars>>

\* return " ".join(transcript_parts).strip(), None
ReconJoin ==
    /\ rpc = "walk"
    /\ item_idx > Len(transcript_data.items)
    /\ rresult' = Returned(Strip(Join(transcript_parts)))
    /\ rpc' = "done"
    /\ UNCHANGED <<transcript_data, time_to_speaker, current_speaker, transcript_parts, item_idx>>
    /\ UNCHANGED <<cacheVars, jobVars, fetchVars, invokeVars, resolveVars, frameVars, createVars>>

\* the else branch: the transcripts array joined, or "No transcripts found in the response"
ReconFlat ==
    /\ rpc = "start"
    /\ ~transcript_data.has_segments
    /\ rresult' = IF transcript_data.has_transcripts /\ transcript_data.transcripts # <<>>
                  THEN Returned(Join(transcript_data.transcripts))
                  ELSE Errored("No transcripts found in the response")
    /\ rpc' = "done"
    /\ UNCHANGED <<transcript_data, time_to_speaker, current_speaker, transcript_parts, item_idx>>
    /\ UNCHANGED <<cacheVars, jobVars, fetchVars, invokeVars, resolveVars, frameVars, createVars>>

InitRecon ==
    /\ CacheIdle /\ JobIdle /\ FetchIdle /\ InvokeIdle /\ ResolveIdle /\ FrameIdle /\ CreateIdle
    /\ transcript_data \in Documents
    /\ time_to_speaker = <<>>
    /\ current_speaker = None
    /\ transcript_parts = <<>>
    /\ item_idx = 0
    /\ rpc = "start"
    /\ rresult = NoText

NextRecon == ReconBuild \/ ReconItem \/ ReconJoin \/ ReconFlat

SpecRecon == InitRecon /\ [][NextRecon]_vars

\* the item the walk is about to process / has just processed
AtItem == rpc = "walk" /\ item_idx <= Len(transcript_data.items)
LastItem == transcript_data.items[item_idx - 1]

\* C15: a step of the walk over a punctuation item leaves current_speaker as it
\* is and appends exactly the item's content to transcript_parts: no marker is
\* emitted, whichever speaker the item's position is mapped to.
C15_PunctuationNeverMarks ==
    [][(AtItem /\ transcript_data.items[item_idx].type = "punctuation") =>
          /\ current_speaker' = current_speaker
          /\ transcript_parts' =
                Append(transcript_parts, <<transcript_data.items[item_idx].content>>)]_vars

\* a punctuation item was processed whose position belongs to another speaker
\* than the current one
C15_Witness ==
    /\ rpc = "walk" /\ item_idx > 1
    /\ LastItem.type = "punctuation"
    /\ current_speaker # None
    /\ Get(time_to_speaker, LastItem.start_time) \in Speakers \ {current_speaker}

\* the speakers the pronunciation items of `its` resolve to, in order
RECURSIVE PronSpeakers(_, _)
PronSpeakers(its, m) ==
    IF its = <<>> THEN <<>>
    ELSE IF Head(its).type = "pronunciation"
         THEN <<Get(m, Head(its).start_time)>> \o PronSpeakers(Tail(its), m)
         ELSE PronSpeakers(Tail(its), m)

\* how often the speaker changes along sp, starting from the undefined speaker
SpeakerChanges(sp) ==
    Cardinality({i \in 1..Len(sp) : sp[i] # (IF i = 1 THEN None ELSE sp[i - 1])})

AllMarkers == {Marker(s) : s \in Speakers \cup {None}}
AllLabels == {Label(s) : s \in Speakers \cup {None}}
MarkerParts(parts) == {i \in 1..Len(parts) : parts[i] \in AllMarkers}
LabelCount(str) == Cardinality({i \in 1..Len(str) : str[i] \in AllLabels})

ExampleItems ==
    <<[type |-> "pronunciation", start_time |-> "0.0", content |-> "Hello"],
      [type |-> "punctuation", start_time |-> "0.0", content |-> ","],
      [type |-> "pronunciation", start_time |-> "1.0", content |-> "world"]>>

ExampleMapped ==
    /\ transcript_data.items = ExampleItems
    /\ Get(time_to_speaker, "0.0") = "spk0"
    /\ Get(time_to_speaker, "1.0") = "spk1"

C16_Counts ==
    /\ rpc = "walk" =>
          /\ Cardinality(MarkerParts(transcript_parts)) =
                SpeakerChanges(PronSpeakers(SubSeq(transcript_data.items, 1, item_idx - 1),
                                            time_to_speaker))
          /\ \A i \in MarkerParts(transcript_parts) :
                i < Len(transcript_parts) /\ transcript_parts[i + 1] \in {<<"Hello">>, <<"world">>}
    /\ (rpc = "done" /\ transcript_data.has_segments) =>
          LabelCount(rresult.text) =
                SpeakerChanges(PronSpeakers(transcript_data.items, time_to_speaker))
    /\ (rpc = "done" /\ transcript_data.has_segments /\ ExampleMapped) =>
          rresult.text = <<"[spk0]:", " ", " ", "Hello", " ", ",", " ",
                           "\n", "[spk1]:", " ", " ", "world">>

C16_Step ==
    (AtItem /\ transcript_data.items[item_idx].type = "pronunciation") =>
        LET item == transcript_data.items[item_idx]
            speaker == Get(time_to_speaker, item.start_time)
        IN /\ current_speaker' = speaker
           /\ transcript_parts' =
                 IF speaker # current_speaker
                 THEN transcript_parts \o <<Marker(speaker), <<item.content>>>>
                 ELSE Append(transcript_parts, <<item.content>>)

\* C16: a speaker-change marker is emitted immediately before a pronunciation
\* item exactly when that item's resolved speaker differs from current_speaker
\* (undefined at the start), so the markers in the parts and the labels in the
\* returned text number the speaker changes along the pronunciation items; for
\* Hello(0.0) ','  world(1.0) with 0.0 -> spk0 and 1.0 -> spk1 the text has one
\* spk0 marker before Hello and one spk1 marker before world.
C16_MarkerIffSpeakerChanges == []C16_Counts /\ [][C16_Step]_vars

\* the example document was reconstructed
C16_Witness ==
    /\ rpc = "done" /\ transcript_data.has_segments /\ ExampleMapped
    /\ LabelCount(rresult.text) = 2

\* C17: when the reconstruction returns the empty transcript (no items, no
\* segments) for a request with valid parameters, the invocation yields that
\* empty transcript as its one success message and no failure message.
C17_EmptyTranscriptIsSuccess ==
    (hkind = "transcribe" /\ hpc = "done" /\ hv.text = "" /\ TranscribeChecks(hp) = <<>>) =>
        out = <<Success("")>>

NoSpeakerSegments == ~transcript_data.has_segments \/ transcript_data.segments = <<>>

HasFlatText == transcript_data.has_transcripts /\ transcript_data.transcripts # <<>>

\* C18: when the document has no speaker segments (the list is absent or empty)
\* and carries the flat transcript, the reconstruction returns the concatenation
\* of the flat transcript field, with no speaker label in it.
C18_NoSegmentsGivesFlatText ==
    (rpc = "done" /\ NoSpeakerSegments /\ HasFlatText) =>
        /\ rresult = Returned(Join(transcript_data.transcripts))
        /\ LabelCount(rresult.text) = 0

(***************************************************************************)
(* resolve_aws_credentials as a function of its two arguments              *)
(***************************************************************************)
\* a credential value: missing (None), empty, a stored one, a call-level one
StoredValues == [aws_access_key_id : {None, "", "AK0"},
                 aws_secret_access_key : {None, "", "SK0"},
                 aws_region : {None, "", "eu-west-1"}]

CallValues == [aws_access_key_id : {None, "", "AK1"},
               aws_secret_access_key : {None, "", "SK1"},
               aws_region : {None, "", "ap-northeast-1"}]

\* a tool without runtime, or a runtime with credentials
Tools == {NoTool} \cup [has_runtime : {TRUE}, credentials : StoredValues]

\* getattr(getattr(tool, 'runtime', None), 'credentials', {}) or {}
RuntimeCredentials(t) == IF t.has_runtime THEN t.credentials ELSE NoCreds

\* the call: nothing is assigned but the returned dict
Resolve ==
    /\ vpc = "start"
    /\ resolved' = resolve_aws_credentials(RuntimeCredentials(tool), call_parameters)
    /\ vpc' = "done"
    /\ UNCHANGED <<tool, call_parameters>>
    /\ UNCHANGED <<cacheVars, jobVars, fetchVars, invokeVars, reconVars, frameVars, createVars>>

InitResolve ==
    /\ CacheIdle /\ JobIdle /\ FetchIdle /\ InvokeIdle /\ ReconIdle /\ FrameIdle /\ CreateIdle
    /\ tool \in Tools
    /\ call_parameters \in CallValues
    /\ resolved = NoCreds
    /\ vpc = "start"

NextResolve == Resolve

SpecResolve == InitResolve /\ [][NextResolve]_vars

CredentialKeys == {"aws_access_key_id", "aws_secret_access_key", "aws_region"}

Present(x) == x \notin {None, ""}

\* the value C19 prescribes for a key
Prescribed(key) ==
    IF Present(call_parameters[key]) THEN call_parameters[key]
    ELSE IF key = "aws_region" /\ ~Present(RuntimeCredentials(tool)[key]) THEN "us-east-1"
    ELSE RuntimeCredentials(tool)[key]

C19_Resolved ==
    /\ vpc = "start" => ENABLED Resolve
    /\ vpc = "done" => \A key \in CredentialKeys : resolved[key] = Prescribed(key)

C19_Frame == tool' = tool /\ call_parameters' = call_parameters

\* C19: resolve_aws_credentials is total and pure: for each of access key id,
\* secret access key and region the call-level value is returned when present
\* and non-empty, otherwise the stored default, and for the region "us-east-1"
\* when neither gives one; the call always returns, and it changes neither the
\* stored defaults nor the call parameters.
C19_ResolutionIsPure == []C19_Resolved /\ [][C19_Frame]_vars

\* stored default region "eu-west-1" with no override resolved to "eu-west-1"
C19_Witness ==
    /\ vpc = "done"
    /\ tool.has_runtime /\ tool.credentials.aws_region = "eu-west-1"
    /\ call_parameters.aws_region = None
    /\ resolved.aws_region = "eu-west-1"

\* C20: an invocation takes its inputs from its own parameters, not from what
\* earlier invocations on the instance supplied: the knowledge base a
\* BedrockRetrieveTool invocation queries is the knowledge_base_id of that
\* invocation's tool_parameters.
C20_OnlyOwnParameters ==
    hkind = "bedrock_retrieve" =>
        \A j \in 1..Len(calls) :
            calls[j].op = "retrieve" => calls[j].arg = hp.knowledge_base_id

\* the job reports a terminal status in one of its answers
ReportsTerminal == \E n \in DOMAIN script : IsTerminal(jkind, script[n].status)

\* every answer is a proper non-terminal status, and the job stays in it
StaysNonTerminal ==
    \A n \in DOMAIN script : Abstract(jkind, script[n].status) \in {"SUBMITTED", "IN_PROGRESS"}

InLoop == jpc \in {"polling", "sleeping"}

\* C27: the poll loop has no bound of its own.  If the job reports a terminal status the run
\* returns; if the job stays non-terminal for ever the run never leaves the loop and goes on
\* alternating between a status request and the fixed wait
C27_NoBoundOfItsOwn ==
    /\ ReportsTerminal => <>(jpc = "done")
    /\ [][(StaysNonTerminal /\ InLoop) => InLoop']_vars
    /\ (StaysNonTerminal /\ jpc = "polling") ~> (jpc = "sleeping")
    /\ (StaysNonTerminal /\ jpc = "sleeping") ~> (jpc = "polling")

\* a run whose job never left the non-terminal states: it has issued every recorded status
\* request, has waited after the last one, and is about to ask again
C27_Witness ==
    /\ StaysNonTerminal /\ submits = 1
    /\ Len(requests) = MaxRequests
    /\ jpc = "polling"

(***************************************************************************)
(* tools/extract_frame.py: FrameExtractor._invoke.  Every invocation,    *)
(* on every instance, works in the same directory                          *)
(* <package>/tools/temp, so the directory is one shared record.            *)
(***************************************************************************)

\* tool_parameters: input_type, and frame_count as the text int() is applied to
FrameParamSets == [input_type : {"GIF", "MP4"}, frame_count : {"5", "abc"}]

\* int(tool_parameters.get("frame_count", 5)) raises ValueError
FrameCountRaises(tp) == tp.frame_count = "abc"

Blob(content) == [tag |-> "blob", text |-> content]

\* a plausible slip: the cleanup sits at the end of the try block, not in a finally clause
AfterFailure_no_finally == "done"

\* where `except Exception` leads: the finally clause
AfterFailure == "cleanup"

\* the except clause of _invoke: one failure text, then the finally clause
FrameFails(i) ==
    /\ xout' = [xout EXCEPT ![i] = Append(@, Failure("error while extracting frames"))]
    /\ xpc' = [xpc EXCEPT ![i] = AfterFailure]

\* _clean_temp_dir: the directory after the call; a removal that raises is swallowed
CleanTempDir(fs, raises) == IF fs.exists /\ ~raises THEN NoDir ELSE fs

\* lines 73-84: read the parameters, create the directory
FrameBegin(i) ==
    /\ xpc[i] = "start"
    /\ IF FrameCountRaises(xparams[i])
       THEN FrameFails(i) /\ UNCHANGED xfs
       ELSE /\ xfs' = [xfs EXCEPT !.exists = TRUE]
            /\ xpc' = [xpc EXCEPT ![i] = "fetch"]
            /\ UNCHANGED xout
    /\ UNCHANGED <<xparams, xcleanups, xleft>>
    /\ UNCHANGED <<cacheVars, jobVars, fetchVars, invokeVars, reconVars, resolveVars, createVars>>

\* lines 87-97: the download; the two refusals yield a text and fall through to the extraction
FrameFetch(i, res) ==
    /\ xpc[i] = "fetch"
    /\ IF xparams[i].input_type = "GIF"
       THEN CASE res = "raise" -> FrameFails(i) /\ UNCHANGED xfs
              [] res = "200" ->
                    IF xfs.exists
                    THEN /\ xfs' = [xfs EXCEPT !.gif = i]
                         /\ xpc' = [xpc EXCEPT ![i] = "extract"]
                         /\ UNCHANGED xout
                    ELSE FrameFails(i) /\ UNCHANGED xfs
              [] OTHER ->
                    /\ xout' = [xout EXCEPT ![i] = Append(@, Failure("download failed"))]
                    /\ xpc' = [xpc EXCEPT ![i] = "extract"]
                    /\ UNCHANGED xfs
       ELSE /\ res = "none"
            /\ xout' = [xout EXCEPT ![i] = Append(@, Failure("only GIF is supported"))]
            /\ xpc' = [xpc EXCEPT ![i] = "extract"]
            /\ UNCHANGED xfs
    /\ UNCHANGED <<xparams, xcleanups, xleft>>
    /\ UNCHANGED <<cacheVars, jobVars, fetchVars, invokeVars, reconVars, resolveVars, createVars>>

\* line 100, _extract_specific_frames: create the frames folder, open input.gif, write the frames
FrameExtract(i) ==
    /\ xpc[i] = "extract"
    /\ IF xfs.gif = "none"
       THEN /\ xfs' = [xfs EXCEPT !.exists = TRUE]
            /\ FrameFails(i)
       ELSE /\ xfs' = [xfs EXCEPT !.exists = TRUE, !.frames = xfs.gif]
            /\ xpc' = [xpc EXCEPT ![i] = "yield"]
            /\ UNCHANGED xout
    /\ UNCHANGED <<xparams, xcleanups, xleft>>
    /\ UNCHANGED <<cacheVars, jobVars, fetchVars, invokeVars, reconVars, resolveVars, createVars>>

\* lines 103-109: read the frame files back and yield them
FrameYield(i) ==
    /\ xpc[i] = "yield"
    /\ IF xfs.frames = "none"
       THEN FrameFails(i)
       ELSE /\ xout' = [xout EXCEPT ![i] = Append(@, Blob(xfs.frames))]
            /\ xpc' = [xpc EXCEPT ![i] = "cleanup"]
    /\ UNCHANGED <<xparams, xfs, xcleanups, xleft>>
    /\ UNCHANGED <<cacheVars, jobVars, fetchVars, invokeVars, reconVars, resolveVars, createVars>>

\* lines 113-115: the finally clause
FrameCleanup(i, raises) ==
    /\ xpc[i] = "cleanup"
    /\ raises => xfs.exists
    /\ xfs' = CleanTempDir(xfs, raises)
    /\ xcleanups' = [xcleanups EXCEPT ![i] = @ + 1]
    /\ xleft' = [xleft EXCEPT ![i] = raises]
    /\ xpc' = [xpc EXCEPT ![i] = "done"]
    /\ UNCHANGED <<xparams, xout>>
    /\ UNCHANGED <<cacheVars, jobVars, fetchVars, invokeVars, reconVars, resolveVars, createVars>>

InitFrame ==
    /\ CacheIdle /\ JobIdle /\ FetchIdle /\ InvokeIdle /\ ReconIdle /\ ResolveIdle /\ CreateIdle
    /\ xparams \in [Frames -> FrameParamSets]
    /\ xpc = [i \in Frames |-> "start"]
    /\ xout = [i \in Frames |-> <<>>]
    /\ xfs = NoDir
    /\ xcleanups = [i \in Frames |-> 0]
    /\ xleft = [i \in Frames |-> FALSE]

NextFrame ==
    \E i \in Frames :
        \/ FrameBegin(i)
        \/ \E res \in {"200", "404", "raise", "none"} : FrameFetch(i, res)
        \/ FrameExtract(i)
        \/ FrameYield(i)
        \/ \E raises \in BOOLEAN : FrameCleanup(i, raises)

SpecFrame == InitFrame /\ [][NextFrame]_vars

\* the invocation i ends with this step
FrameEnds(i) == xpc[i] # "done" /\ xpc'[i] = "done"

\* how the invocation went: it yielded a frame, it reported a refusal of the input, or it raised
FrameYielded(i) == \E k \in DOMAIN xout[i] : xout[i][k].tag = "blob"
FrameRefused(i) ==
    \E k \in DOMAIN xout[i] : xout[i][k] \in {Failure("download failed"), Failure("only GIF is supported")}
FrameRaised(i) == \E k \in DOMAIN xout[i] : xout[i][k] = Failure("error while extracting frames")

MaxCreates == 3

ResourceNames == {"a", "b"}

\* what the service can answer to a create request for `name`.  "exists" is ResourceInUseException
\* (DynamoDB) or BucketAlreadyOwnedByYou / BucketAlreadyExists (S3); S3 in us-east-1 answers 200 to
\* the owner's repeated create; "waiter" is a create_table whose wait_until_exists gives up;
\* "invalid" is the client-side refusal of a missing TableName
CreateResponses(k, name, remote) ==
    IF name = None THEN {"invalid"}
    ELSE IF name \in remote
         THEN {"exists", "denied"} \cup (IF k = "s3" THEN {"created"} ELSE {})
         ELSE {"created", "denied"} \cup (IF k = "dynamodb" THEN {"waiter"} ELSE {})

\* DynamoDBManager._create_table and the tail of _invoke
DynamoReport(res) ==
    CASE res = "created" -> Success("Table created successfully")
      [] res = "exists" -> Success("Table already exists")
      [] OTHER -> Failure("Error")

\* S3CreateBucket._invoke from create_bucket on
BucketReport(res) ==
    IF res = "created" THEN Success("Bucket created") ELSE Failure("Failed to create bucket")

\* the start of an invocation up to the create request
CreateBegin(name) ==
    /\ mpc \in {"start", "done"}
    /\ minvocations < MaxCreates
    /\ minvocations' = minvocations + 1
    /\ mname' = name
    /\ IF mkind = "s3" /\ name = None
       THEN /\ mout' = Append(mout, [name |-> name, response |-> "none",
                                      msg |-> Failure("bucket_name parameter is required")])
            /\ mpc' = "done"
       ELSE mpc' = "call" /\ UNCHANGED mout
    /\ UNCHANGED <<mkind, mremote>>
    /\ UNCHANGED <<cacheVars, jobVars, fetchVars, invokeVars, reconVars, resolveVars, frameVars>>

\* create_table / create_bucket and the report of its answer
CreateCall(res) ==
    /\ mpc = "call"
    /\ res \in CreateResponses(mkind, mname, mremote)
    /\ mremote' = IF res \in {"created", "waiter"} THEN mremote \cup {mname} ELSE mremote
    /\ mout' = Append(mout, [name |-> mname, response |-> res,
                             msg |-> IF mkind = "dynamodb" THEN DynamoReport(res) ELSE BucketReport(res)])
    /\ mpc' = "done"
    /\ UNCHANGED <<mkind, mname, minvocations>>
    /\ UNCHANGED <<cacheVars, jobVars, fetchVars, invokeVars, reconVars, resolveVars, frameVars>>

InitCreate ==
    /\ CacheIdle /\ JobIdle /\ FetchIdle /\ InvokeIdle /\ ReconIdle /\ ResolveIdle /\ FrameIdle
    /\ mkind \in {"dynamodb", "s3"}
    /\ mname = None
    /\ mremote \in SUBSET ResourceNames
    /\ mpc = "start"
    /\ mout = <<>>
    /\ minvocations = 0

NextCreate ==
    \/ \E name \in ResourceNames \cup {None} : CreateBegin(name)
    \/ \E res \in {"created", "exists", "denied", "waiter", "invalid"} : CreateCall(res)

SpecCreate == InitCreate /\ [][NextCreate]_vars

\* C22: an "already exists" answer to a create request is reported as a non-failure, so that
\* creating the same resource twice in a row gives a non-failure outcome both times
C22_AlreadyExistsIsSuccess ==
    /\ \A k \in DOMAIN mout : mout[k].response = "exists" => mout[k].msg.tag = "success"
    /\ \A k \in DOMAIN mout :
         (/\ k + 1 \in DOMAIN mout
          /\ mout[k].name = mout[k + 1].name
          /\ mout[k].response = "created"
          /\ mout[k + 1].response \in {"created", "exists"})
         => (mout[k].msg.tag = "success" /\ mout[k + 1].msg.tag = "success")

\* the stage a logged call of the transcription pipeline belongs to
StageOf(c) ==
    CASE c.op = "upload_file_from_url_to_s3" -> 1
      [] c.op = "start_transcription_job" -> 2
      [] c.op = "requests.get" -> 3
      [] OTHER -> 0

\* C23: in the transcription pipeline the stages start in the order upload, job, download, and a
\* stage is entered only with the locator the previous stage produced: the job is never started
\* without a storage locator, the download never without a transcript locator
C23_StagesOnlyAfterSuccess ==
    (hkind = "transcribe") =>
        /\ \A i, j \in DOMAIN calls : i < j => StageOf(calls[i]) <= StageOf(calls[j])
        /\ \A i \in DOMAIN calls :
             /\ calls[i].op = "start_transcription_job" => ~Not(calls[i].arg)
             /\ calls[i].op = "requests.get" => ~Not(calls[i].arg)

\* C24: when the client-ensure step of an invocation completed without an error, every slot of the
\* handler's slot set holds a handle, also when an earlier invocation with the same credentials
\* failed after constructing only some of the slots
C24_EnsureFillsEverySlot ==
    \A o \in Owners :
        (cpc[o] = "ready") => \A s \in SlotSet(kind[o]) : handles[o][s] # NoHandle

(***************************************************************************)
(* Two tool instances, of the same or of different classes, invoked in any *)
(* interleaving.  The client attributes are declared on the class with the *)
(* value None and assigned through the instance (setattr(owner, ...),      *)
(* self.<attr> = ...), so each instance has its own entry.                 *)
(***************************************************************************)
Instances == {"o1", "o2"}

\* the handler classes of the two instances: both declare s3_client
InstanceKinds == {"transcribe", "tts"}

\* call-level credentials that differ in the region only
InstanceParamSets ==
    {p \in ParamSets : p.aws_access_key_id = "AK1" /\ p.aws_secret_access_key = "SK1" /\ p.aws_region # None}

InitInstances ==
    /\ JobIdle /\ FetchIdle /\ InvokeIdle /\ ReconIdle /\ ResolveIdle /\ FrameIdle /\ CreateIdle
    /\ kind \in [Instances -> InstanceKinds]
    /\ runtime = [o \in Instances |-> NoCreds]
    /\ sig = [o \in Instances |-> <<>>]
    /\ handles = [o \in Instances |-> EmptyHandles]
    /\ cpc = [o \in Instances |-> "idle"]
    /\ cur = [o \in Instances |-> NoCreds]
    /\ prev = [o \in Instances |-> NoCreds]
    /\ prevEnsure = [o \in Instances |-> "none"]
    /\ before = [o \in Instances |-> [handles |-> EmptyHandles, sig |-> <<>>]]
    /\ built = [o \in Instances |-> <<>>]
    /\ builtPrev = [o \in Instances |-> <<>>]
    /\ used = [o \in Instances |-> {}]

NextInstances ==
    \/ \E o \in Instances, p \in InstanceParamSets : BeginInvoke(o, p)
    \/ \E o \in Instances, f \in 0..MaxFailAt : LazyConstruct(o, f)
    \/ \E o \in Instances : UseClients(o)

SpecInstances == InitInstances /\ [][NextInstances]_vars

\* the handles an instance holds and reads are its own: constructed through this instance, for
\* the service of the slot, under the signature the instance stores; a slot is constructed at most
\* once in an invocation
OwnHandlesOnly ==
    \A o \in Instances :
        /\ \A s \in AllSlots :
             handles[o][s] # NoHandle =>
                /\ s \in SlotSet(kind[o])
                /\ handles[o][s].maker = o
                /\ handles[o][s].service = ServiceOf(s)
                /\ SigOf(handles[o][s].creds) = sig[o]
        /\ \A h \in used[o] : h # NoHandle => h.maker = o
        /\ \A s \in AllSlots : Occurrences(built[o], s) <= 1

\* a step changes the handles and the signature of the instance that takes it, and of no other
OwnStepsOnly ==
    \A p \in Instances :
        (handles'[p] # handles[p] \/ sig'[p] # sig[p]) => cpc'[p] # cpc[p]

\* C25: there is at most one live handle per (owner, slot), and a handle stored by one instance
\* is never visible through another instance, of the same class or of a different one
C25_HandlesArePerOwner == []OwnHandlesOnly /\ [][OwnStepsOnly]_vars

\* two instances of one class hold s3 clients of their own, built for different regions, and
\* one of them has read its clients
C25_Witness ==
    /\ kind["o1"] = kind["o2"]
    /\ handles["o1"]["s3_client"] # NoHandle /\ handles["o2"]["s3_client"] # NoHandle
    /\ handles["o1"]["s3_client"].creds # handles["o2"]["s3_client"].creds
    /\ cpc["o1"] = "done" /\ handles["o1"]["s3_client"] \in used["o1"]

\* C26: two invocations that overlap share no in-progress state: the frames an invocation yields
\* come from its own download, and the frame files an invocation wrote are still its own when it
\* reads them back, whatever the other invocation creates, writes or deletes meanwhile
C26_NoSharedState ==
    \A i \in Frames :
        /\ \A k \in DOMAIN xout[i] : xout[i][k].tag = "blob" => xout[i][k].text = i
        /\ (xpc[i] = "yield") => xfs.frames = i

\* the segments that hold an item at time t, by position
SegmentsAt(t) ==
    {k \in DOMAIN transcript_data.segments :
        \E j \in DOMAIN transcript_data.segments[k].items : transcript_data.segments[k].items[j] = t}

LastOf(S) == CHOOSE k \in S : \A j \in S : j <= k

\* C28: once the mapping is built, the speaker of a start_time that several segments contain is
\* the label of the last of these segments (and a start_time in no segment has no speaker)
C28_LastSegmentWins ==
    (rpc \in {"walk", "done"} /\ transcript_data.has_segments) =>
        \A t \in Times :
            Get(time_to_speaker, t) =
                IF SegmentsAt(t) = {} THEN None
                ELSE transcript_data.segments[LastOf(SegmentsAt(t))].speaker_label

\* two segments with different labels hold an item at 0.0, and a word at 0.0 got the second label
C28_Witness ==
    /\ rpc = "done" /\ transcript_data.has_segments
    /\ Len(transcript_data.segments) = 2
    /\ SegmentsAt("0.0") = {1, 2}
    /\ transcript_data.segments[1].speaker_label = "spk0"
    /\ transcript_data.segments[2].speaker_label = "spk1"
    /\ \E i \in DOMAIN transcript_data.items :
          transcript_data.items[i].type = "pronunciation" /\ transcript_data.items[i].start_time = "0.0"
    /\ Marker("spk1") \in {transcript_parts[i] : i \in DOMAIN transcript_parts}
    /\ Marker("spk0") \notin {transcript_parts[i] : i \in DOMAIN transcript_parts}

\* the step appended a marker (for the speaker that is current after it) and then the content
MarkerAdded ==
    /\ Len(transcript_parts') = Len(transcript_parts) + 2
    /\ transcript_parts'[Len(transcript_parts) + 1] = Marker(current_speaker')

\* the label the segments give to the time t (the last segment's, see C28)
LabelAt(t) == transcript_data.segments[LastOf(SegmentsAt(t))].speaker_label

C29_Step ==
    (AtItem /\ transcript_data.items[item_idx].type = "pronunciation") =>
        LET t == transcript_data.items[item_idx].start_time
        IN IF SegmentsAt(t) = {}
           THEN /\ current_speaker' = None
                /\ current_speaker' \notin Speakers
                /\ MarkerAdded <=> current_speaker \in Speakers
           ELSE /\ current_speaker' = LabelAt(t)
                /\ current_speaker = None => MarkerAdded
                /\ current_speaker \in Speakers => (MarkerAdded <=> LabelAt(t) # current_speaker)

\* C29: a pronunciation item whose start_time no segment holds resolves to the undefined speaker,
\* which equals no named speaker: after a named speaker it counts as a change, and the labeled
\* item that follows it gets a marker because its speaker differs from the undefined one; a
\* labeled item gets no marker when its speaker is the current one
C29_UnmappedIsUndefinedSpeaker == [][C29_Step]_vars

\* Hello(0.0) world(1.0) Hello(0.0) with 0.0 -> spk0 and 1.0 in no segment
C29_Witness ==
    /\ rpc = "done" /\ transcript_data.has_segments
    /\ SegmentsAt("1.0") = {} /\ SegmentsAt("0.0") # {} /\ LabelAt("0.0") = "spk0"
    /\ transcript_parts = <<Marker("spk0"), <<"Hello">>, Marker(None), <<"world">>,
                            Marker("spk0"), <<"Hello">>>>

\* the fragments joined with one space between two fragments, except next to a marker
RECURSIVE JoinExceptAtMarkers(_)
JoinExceptAtMarkers(parts) ==
    IF parts = <<>> THEN <<>>
    ELSE IF Len(parts) = 1 THEN parts[1]
    ELSE IF parts[1] \in AllMarkers \/ parts[2] \in AllMarkers
         THEN parts[1] \o JoinExceptAtMarkers(Tail(parts))
         ELSE parts[1] \o <<" ">> \o JoinExceptAtMarkers(Tail(parts))

\* C30: the reconstructed text is the fragments joined with single spaces, with no separating
\* space added before or after a speaker-change marker, and with leading and trailing whitespace
\* trimmed
C30_NoSpaceAroundMarkers ==
    (rpc = "done" /\ transcript_data.has_segments) =>
        rresult.text = Strip(JoinExceptAtMarkers(transcript_parts))

====
